---- MODULE Spec2Model ----
(***************************************************************************)
(* A state-machine model of the DjannyTok birthday feed:                   *)
(*   - useVideoPreloader (pool of <video> elements, LRU cache, retries,    *)
(*     circuit breaker),                                                   *)
(*   - DjannyTokFeed (navigation, scroll lock, neighbour preloading),      *)
(*   - useVideoLoader (manifest loads) and the AudioContext flags.         *)
(* For the preloader, time is the value of Date.now() relative to mount,  *)
(* in milliseconds, and everything happens at an instant that is a         *)
(* multiple of TickMs.  A JavaScript timer never fires before its delay    *)
(* has passed, so a timer fires at the first such instant at or after its  *)
(* delay; the timers due at one instant fire in any order, between the     *)
(* other events of that instant.                                           *)
(* The feed never reads the clock: its model keeps the time each of its    *)
(* timers has left, in steps of FeedTickMs.  A handler and the render      *)
(* that follows it, with the effects the render runs, are one step.        *)
(***************************************************************************)
EXTENDS Integers, Sequences, FiniteSets, TLC

\* ------------------------------------------------------------------ bounds
NumUrls == 4            \* distinct video URLs of the wide scenarios
ShortTicks == 0         \* ticks of the clock in the wide scenarios
MidUrls == 3            \* distinct video URLs of the middle scenario
MidTicks == 2           \* ticks of the clock in the middle scenario
FewUrls == 2            \* distinct video URLs of the long scenarios
MaxTicks == 4           \* ticks of the clock in the long scenarios
ChunkTicks == 1         \* ticks of the clock in the chunked scenario
TickMs == 5 * 1000      \* the instants at which things happen are multiples of TickMs
MaxListLen == 2         \* longest url list the environment passes to preloadVideos
MaxBatches == 1         \* preloadVideos invocations that may be suspended at once

URLS == 1..NumUrls
NoElem == 0             \* "no element" (absent Map entry)
NoTimer == -1           \* "no timer" / absent progress entry

VARIABLES
  urlCount,             \* the environment asks for the urls 1..urlCount
  urlsSeen,             \* the urls 1..urlsSeen have been asked for so far
  horizon,              \* the clock stops advancing after this many ticks
  batchLimit,           \* preloadVideos invocations that may be suspended at once
  mobileSafari,         \* isMobileSafari(), fixed by the user agent
  now,                  \* Date.now()
  available,            \* videoPool.current.available (array, top of stack last)
  inUse,                \* videoPool.current.inUse : url -> element
  preloadedVideos,      \* Map url -> PreloadedVideo, as a sequence in insertion order
  preloadProgress,      \* React state: url -> percent, NoTimer when absent
  loadingTimeouts,      \* Map url -> deadline of the stuck-load timer
  inFlightPreloads,     \* keys of the Map url -> Promise
  handlerCleanups,      \* keys of the Map url -> detach
  consecutiveFailures,
  circuitOpenUntil,
  calls,                \* per url: the closure of the latest preloadVideo call
  batches,              \* suspended preloadVideos invocations
  nextCleanupAt,        \* deadline of the periodic memory-cleanup interval
  lastOp                \* what the step that ran last reported: a set of notes

\* the state of useVideoPreloader and of the environment that drives it
pvars == <<urlCount, urlsSeen, horizon, batchLimit, mobileSafari, available, inUse,
           preloadedVideos, preloadProgress, loadingTimeouts, inFlightPreloads,
           handlerCleanups, consecutiveFailures, circuitOpenUntil, calls, batches,
           nextCleanupAt, lastOp>>

VARIABLES
  feedVersion,          \* which revision of DjannyTokFeed is mounted
  videos,               \* useVideoLoader: the list, each video named by its videoUrl
  loading,              \* useVideoLoader: loading
  error,                \* useVideoLoader: error # null
  loadsInFlight,        \* loadVideos calls whose fetch has not settled
  currentVideoIndex,
  isScrolling,          \* the scroll lock
  lockTimer,            \* setTimeout(() => setIsScrolling(false)): the time left
  touchStartY,          \* the local of the navigation effect that is installed
  finger,               \* the touch in progress: where and on what it went down
  hasUserInteracted,    \* AudioContext
  hasEnabledSound,      \* AudioContext
  preloadTimer,         \* setTimeout(preloadNext, 500) with what preloadNext closes over
  sinceChange,          \* part_000: time since the preload effect last ran, that is
                        \* since currentVideoIndex or videos was last set to a new
                        \* value, up to preloadDelayMs
  event                 \* what the step that ran last was

fvars == <<feedVersion, videos, loading, error, loadsInFlight,
           currentVideoIndex, isScrolling, lockTimer, touchStartY, finger,
           hasUserInteracted, hasEnabledSound, preloadTimer, sinceChange, event>>

VARIABLES
  wallClock,            \* Date.now() as PasswordGate reads it
  stored,               \* localStorage: the entry under AUTH_KEY
  gatePhase,            \* "mounting" until the mount effect has run
  isAuthenticated,
  password,             \* the password typed so far
  gateError,            \* PasswordGate: error # ''
  isLoading,
  submitTimer,          \* the setTimeout of handleSubmit: the time left
  gateOps               \* the calls of localStorage the last step made

gvars == <<wallClock, stored, gatePhase, isAuthenticated, password, gateError,
           isLoading, submitTimer, gateOps>>

VARIABLES
  isMobileDevice,       \* VideoPlayer: the user agent is a mobile one
  isGloballyMuted,      \* AudioProvider
  shouldAutoplayWithSound,  \* the value the provider handed to the last render
  muted,                \* per player: the muted property of its <video>
  paused,               \* per player: the paused property of its <video>
  isPlaying,            \* per player
  hasError,             \* per player
  autoTimer,            \* per player: the setTimeout of the autoplay effect
  pending,              \* per player: the play() promises not yet settled
  rejected              \* per player: the rejected ones whose handler is due

avars == <<isMobileDevice, isGloballyMuted, shouldAutoplayWithSound, muted,
           paused, isPlaying, hasError, autoTimer, pending, rejected>>

VARIABLES
  loaderMounted,        \* useVideoLoader: the component using it is mounted
  intervalLeft,         \* the setInterval of the loader: time to its next run
  sinceMount,           \* the time since the loader was mounted
  intervalRefreshes     \* the refreshes the interval has started

lvars == <<loaderMounted, intervalLeft, sinceMount, intervalRefreshes>>

VARIABLES
  loaderVersion,        \* which revision of useVideoLoader maps the manifest
  isMobile,             \* useVideoLoader: the user agent is a mobile one
  mapIndex,             \* the index data.videos.map is at
  manifestEntry,        \* the manifest entry at that index
  mapped                \* what the map's callback returned for it

cvars == <<loaderVersion, isMobile, mapIndex, manifestEntry, mapped>>

VARIABLES
  playerVersion,        \* which revision of VideoPlayer retries
  mobileDevice,         \* VideoPlayer: isMobileDevice, fixed by the user agent
  props,                \* videoUrl, alternativeUrl, directUrl
  loads,                \* the urls that load; every other url fails
  vp,                   \* React state: currentUrl, retryCount, isLoading, hasError
  element,              \* the <video>: src, state of its load, a loadstart to fire
  loadTimer,            \* the mobile load timeout with what it closes over
  pressed               \* how often 'Try Again' has been pressed

rvars == <<playerVersion, mobileDevice, props, loads, vp, element, loadTimer,
           pressed>>

\* what the steps of one component leave alone
besidesPreloader == <<fvars, gvars, avars, lvars, cvars, rvars>>
besidesFeed == <<pvars, gvars, avars, lvars, cvars, rvars>>
besidesGate == <<now, pvars, fvars, avars, lvars, cvars, rvars>>
besidesPlayers == <<now, pvars, gvars, lvars, cvars, rvars>>
besidesLoader == <<now, pvars, gvars, avars, cvars, rvars>>
besidesMap == <<now, pvars, fvars, gvars, avars, lvars, rvars>>
besidesRetry == <<now, pvars, fvars, gvars, avars, lvars, cvars>>

vars == <<now, pvars, fvars, gvars, avars, lvars, cvars, rvars>>

\* --------------------------------------------------------------- constants
isMobileSafari == mobileSafari
MAX_PRELOADED_VIDEOS == IF isMobileSafari THEN 1 ELSE 3
MAX_VIDEO_POOL_SIZE == IF isMobileSafari THEN 3 ELSE 5
MEMORY_CLEANUP_INTERVAL == IF isMobileSafari THEN 10000 ELSE 30000
maxRetries == IF isMobileSafari THEN 1 ELSE 2
cooldown == IF isMobileSafari THEN 15000 ELSE 8000
loadTimeoutMs == IF isMobileSafari THEN 15000 ELSE 10000
maxConcurrent == IF isMobileSafari THEN 1 ELSE 2
chunkDelayMs == 100

Min(a, b) == IF a <= b THEN a ELSE b

\* Math.pow(2, n)
RECURSIVE Pow2(_)
Pow2(n) == IF n = 0 THEN 1 ELSE 2 * Pow2(n - 1)

\* the delay before a retry, computed after retryCount was incremented
retryDelay(retryCount) == Pow2(retryCount) * 1000

\* The first instant at which a timer set at `t` with delay `d` can fire.
TimerDue(t, d) == t + ((d + TickMs - 1) \div TickMs) * TickMs

\* ------------------------------------------------- the preloader's state
\* The refs and React state of useVideoPreloader as one record, so that the
\* hook's functions compose the way they call one another.  `ret` is the
\* outcome of the preloadVideo call that ran last: "rejected", "resolved"
\* or "pending"; `settled` holds <<url, outcome>> for every promise of an
\* earlier call that the step resolved or rejected; `notes` collects what
\* the step reports (see Note).
St == [av |-> available, iu |-> inUse, pv |-> preloadedVideos,
       pp |-> preloadProgress, lt |-> loadingTimeouts, ifp |-> inFlightPreloads,
       hc |-> handlerCleanups, cf |-> consecutiveFailures,
       cou |-> circuitOpenUntil, calls |-> calls, ret |-> "none",
       settled |-> {}, notes |-> {}]

Range(f) == {f[x] : x \in DOMAIN f}

\* a closure of preloadVideo that holds nothing any more
NoCall == [video |-> NoElem, retryCount |-> 0, phase |-> "idle",
           delay |-> 0, retryAt |-> 0, loadstart |-> FALSE]

Live(c) == c.phase \in {"loading", "retryWait"}

\* An HTMLVideoElement has no name: only whether two references are to the
\* same element matters.  ElementOrder lists the elements the state refers
\* to in the order in which a fixed walk over the state meets them, and
\* Canonical renames each element to its position in that list, so that two
\* states that differ only in the names of the elements are one state.
RECURSIVE Dedup(_, _)
Dedup(seq, seen) ==
  IF seq = <<>> THEN <<>>
  ELSE IF Head(seq) \in seen THEN Dedup(Tail(seq), seen)
  ELSE <<Head(seq)>> \o Dedup(Tail(seq), seen \cup {Head(seq)})

ElementOrder(S) ==
  Dedup([u \in URLS |-> S.iu[u]]
        \o [i \in 1..Len(S.pv) |-> S.pv[i].element]
        \o S.av
        \o [u \in URLS |-> IF Live(S.calls[u]) THEN S.calls[u].video ELSE NoElem],
        {NoElem})

Canonical(S) ==
  LET ord == ElementOrder(S)
      name == [e \in Range(ord) \cup {NoElem} |->
                 IF e = NoElem THEN NoElem
                 ELSE CHOOSE i \in 1..Len(ord) : ord[i] = e]
  IN IF \A i \in 1..Len(ord) : ord[i] = i THEN S
     ELSE [S EXCEPT !.iu = [u \in URLS |-> name[S.iu[u]]],
                    !.pv = [i \in 1..Len(S.pv) |->
                              [S.pv[i] EXCEPT !.element = name[S.pv[i].element]]],
                    !.av = [i \in 1..Len(S.av) |-> name[S.av[i]]],
                    !.calls = [u \in URLS |->
                                 IF Live(S.calls[u])
                                 THEN [S.calls[u] EXCEPT !.video = name[S.calls[u].video]]
                                 ELSE S.calls[u]]]

Commit(T) ==
  \E S \in {Canonical(T)} :
     /\ available' = S.av
     /\ inUse' = S.iu
     /\ preloadedVideos' = S.pv
     /\ preloadProgress' = S.pp
     /\ loadingTimeouts' = S.lt
     /\ inFlightPreloads' = S.ifp
     /\ handlerCleanups' = S.hc
     /\ consecutiveFailures' = S.cf
     /\ circuitOpenUntil' = S.cou
     /\ calls' = S.calls
     /\ lastOp' = S.notes

\* Map helpers for preloadedVideos (insertion-ordered)
PvKeys(pv) == {pv[i].url : i \in 1..Len(pv)}
PvIndex(pv, url) == CHOOSE i \in 1..Len(pv) : pv[i].url = url
PvGet(pv, url) == pv[PvIndex(pv, url)]
PvSet(pv, url, el, t) ==
  LET e == [url |-> url, element |-> el, lastUsed |-> t]
  IN IF url \in PvKeys(pv) THEN [pv EXCEPT ![PvIndex(pv, url)] = e]
     ELSE Append(pv, e)
PvDelete(pv, url) == SelectSeq(pv, LAMBDA e : e.url # url)

\* the elements something still refers to
Referenced(S) ==
  Range(S.av) \cup (Range(S.iu) \ {NoElem})
  \cup {S.pv[i].element : i \in 1..Len(S.pv)}
  \cup {S.calls[u].video : u \in {x \in URLS : Live(S.calls[x])}}

isCircuitOpenIn(S) == now < S.cou
isCircuitOpen == now < circuitOpenUntil

\* document.createElement('video'): an element nothing refers to yet
createVideoElement(S) ==
  CHOOSE e \in 1..(Cardinality(Referenced(S)) + 1) : e \notin Referenced(S)

\* What a step reports, for the reader of a trace:
\*   "dropped"   returnVideoToPool found the list full and let the element go
\*   "evicted"   cleanupLRU removed entries
\*   "exhausted" an error came after the last retry
\*   "timedOut"  the stuck-load timer fired
\*   "opened"    the circuit breaker was opened
\*   "loaded"    a canplay event put an element into the cache
\*   "rejected"  preloadVideo refused because the circuit is open
\*   "skipped"   preloadVideos returned [] because the circuit is open
\*   "shared"    preloadVideo returned the promise of the load in flight
Note(S, n) == [S EXCEPT !.notes = S.notes \cup {n}]

getVideoFromPool_peek(S) ==
  IF Len(S.av) > 0
  THEN <<S.av[Len(S.av)], S.av>>
  ELSE <<createVideoElement(S), S.av>>

\* getVideoFromPool: <<element, available after the call>>
getVideoFromPool(S) ==
  IF Len(S.av) > 0
  THEN <<S.av[Len(S.av)], SubSeq(S.av, 1, Len(S.av) - 1)>>
  ELSE <<createVideoElement(S), S.av>>

returnVideoToPool_full(S, video, url) ==
  [S EXCEPT !.iu[url] = NoElem, !.av = Append(S.av, video)]

returnVideoToPool(S, video, url) ==
  IF Len(S.av) < MAX_VIDEO_POOL_SIZE
  THEN [S EXCEPT !.iu[url] = NoElem, !.av = Append(S.av, video)]
  ELSE Note([S EXCEPT !.iu[url] = NoElem], "dropped")

\* entries.sort((a, b) => a[1].lastUsed - b[1].lastUsed): a stable sort
RECURSIVE InsertByLastUsed(_, _)
InsertByLastUsed(sorted, e) ==
  IF sorted = <<>> THEN <<e>>
  ELSE IF sorted[Len(sorted)].lastUsed <= e.lastUsed THEN Append(sorted, e)
  ELSE Append(InsertByLastUsed(SubSeq(sorted, 1, Len(sorted) - 1), e),
              sorted[Len(sorted)])

RECURSIVE SortByLastUsed(_)
SortByLastUsed(entries) ==
  IF entries = <<>> THEN <<>>
  ELSE InsertByLastUsed(SortByLastUsed(SubSeq(entries, 1, Len(entries) - 1)),
                        entries[Len(entries)])

\* one pass of a forEach that returns an entry's element and deletes the entry
RemoveEntry(S, e) ==
  LET R == returnVideoToPool(S, e.element, e.url)
  IN [R EXCEPT !.pv = PvDelete(R.pv, e.url), !.pp[e.url] = NoTimer]

RECURSIVE RemoveAll(_, _)
RemoveAll(S, toRemove) ==
  IF toRemove = <<>> THEN S
  ELSE RemoveAll(RemoveEntry(S, Head(toRemove)), Tail(toRemove))

cleanupLRU_newest(S) ==
  LET entries == S.pv
  IN IF Len(entries) <= MAX_PRELOADED_VIDEOS THEN S
     ELSE LET sorted == SortByLastUsed(entries)
              toRemove == SubSeq(sorted, MAX_PRELOADED_VIDEOS + 1, Len(sorted))
          IN RemoveAll(S, toRemove)

cleanupLRU(S) ==
  LET entries == S.pv
  IN IF Len(entries) <= MAX_PRELOADED_VIDEOS THEN S
     ELSE LET sorted == SortByLastUsed(entries)
              toRemove == SubSeq(sorted, 1, Len(entries) - MAX_PRELOADED_VIDEOS)
          IN Note(RemoveAll(S, toRemove), "evicted")

preloadVideo_noDedup(S, url) ==
  IF isCircuitOpenIn(S) THEN Note([S EXCEPT !.ret = "rejected"], "rejected")
  ELSE IF url \in PvKeys(S.pv)
  THEN [S EXCEPT !.pv = PvSet(S.pv, url, PvGet(S.pv, url).element, now),
                 !.ret = "resolved"]
  ELSE LET got == getVideoFromPool(S)
           video == got[1]
       IN [S EXCEPT !.av = got[2],
                    !.iu[url] = video,
                    !.calls[url] = [video |-> video, retryCount |-> 0,
                                    phase |-> "loading",
                                    delay |-> 0, retryAt |-> 0,
                                    loadstart |-> TRUE],
                    !.hc = S.hc \cup {url},
                    !.lt[url] = TimerDue(now, loadTimeoutMs),
                    !.ifp = S.ifp \cup {url},
                    !.ret = "pending"]

\* preloadVideo(url), with the Promise executor that runs inside it
preloadVideo(S, url) ==
  IF isCircuitOpenIn(S) THEN Note([S EXCEPT !.ret = "rejected"], "rejected")
  ELSE IF url \in PvKeys(S.pv)
  THEN [S EXCEPT !.pv = PvSet(S.pv, url, PvGet(S.pv, url).element, now),
                 !.ret = "resolved"]
  ELSE IF url \in S.ifp THEN Note([S EXCEPT !.ret = "pending"], "shared")
  ELSE LET got == getVideoFromPool(S)
           video == got[1]
       IN [S EXCEPT !.av = got[2],
                    !.iu[url] = video,
                    !.calls[url] = [video |-> video, retryCount |-> 0,
                                    phase |-> "loading",
                                    delay |-> 0, retryAt |-> 0,
                                    loadstart |-> TRUE],
                    !.hc = S.hc \cup {url},
                    !.lt[url] = TimerDue(now, loadTimeoutMs),
                    !.ifp = S.ifp \cup {url},
                    !.ret = "pending"]

FinalFailure_three(S, url) ==
  LET R == returnVideoToPool([S EXCEPT !.hc = S.hc \ {url}],
                             S.calls[url].video, url)
      n == R.cf + 1
      F == [R EXCEPT !.lt[url] = NoTimer,
                     !.ifp = R.ifp \ {url},
                     !.cf = n,
                     !.cou = IF n >= 3 THEN now + cooldown ELSE R.cou,
                     !.settled = R.settled \cup {<<url, "rejected">>},
                     !.calls[url] = NoCall]
  IN IF n >= 3 THEN Note(F, "opened") ELSE F

\* the failure bookkeeping shared by the last error and the load timeout
FinalFailure(S, url) ==
  LET R == returnVideoToPool([S EXCEPT !.hc = S.hc \ {url}],
                             S.calls[url].video, url)
      n == R.cf + 1
      F == [R EXCEPT !.lt[url] = NoTimer,
                     !.ifp = R.ifp \ {url},
                     !.cf = n,
                     !.cou = IF n >= 2 THEN now + cooldown ELSE R.cou,
                     !.settled = R.settled \cup {<<url, "rejected">>},
                     !.calls[url] = NoCall]
  IN IF n >= 2 THEN Note(F, "opened") ELSE F

handleCanPlay(S, url) ==
  Note([S EXCEPT !.lt[url] = NoTimer,
                 !.hc = S.hc \ {url},
                 !.pv = PvSet(S.pv, url, S.calls[url].video, now),
                 !.pp[url] = 100,
                 !.cf = 0,
                 !.ifp = S.ifp \ {url},
                 !.settled = S.settled \cup {<<url, "resolved">>},
                 !.calls[url] = NoCall],
       "loaded")

handleError_unbounded(S, url) ==
  LET c == S.calls[url]
  IN [S EXCEPT !.lt[url] = NoTimer,
               !.calls[url] = [c EXCEPT !.retryCount = c.retryCount + 1,
                                        !.phase = "retryWait",
                                        !.delay = retryDelay(c.retryCount + 1),
                                        !.retryAt = TimerDue(now, retryDelay(c.retryCount + 1))]]

handleError(S, url) ==
  LET c == S.calls[url]
  IN IF c.retryCount < maxRetries
     THEN [S EXCEPT !.lt[url] = NoTimer,
                    !.calls[url] = [c EXCEPT !.retryCount = c.retryCount + 1,
                                             !.phase = "retryWait",
                                             !.delay = retryDelay(c.retryCount + 1),
                                             !.retryAt = TimerDue(now, retryDelay(c.retryCount + 1))]]
     ELSE Note(FinalFailure(S, url), "exhausted")

loadTimeout(S, url) == Note(FinalFailure(S, url), "timedOut")

getPreloadedVideo(S, url) ==
  IF url \in PvKeys(S.pv)
  THEN [S EXCEPT !.pv = PvSet(S.pv, url, PvGet(S.pv, url).element, now)]
  ELSE S

RECURSIVE ReturnAll(_, _)
ReturnAll(S, entries) ==
  IF entries = <<>> THEN S
  ELSE ReturnAll(returnVideoToPool(S, Head(entries).element, Head(entries).url),
                 Tail(entries))

clearPreloadedVideos(S) ==
  LET R == ReturnAll([S EXCEPT !.lt = [u \in URLS |-> NoTimer]], S.pv)
  IN [R EXCEPT !.pv = <<>>, !.pp = [u \in URLS |-> NoTimer]]

cleanupVideosNotInRange(S, currentUrls) ==
  RemoveAll(S, SelectSeq(S.pv, LAMBDA e : e.url \notin currentUrls))


\* ------------------------------------------------------------ preloadVideos
\* chunk.map(url => preloadVideo(url).catch(...)): the calls run one after
\* the other; `waiting` collects the urls whose promise is still pending.
RECURSIVE RunChunk(_, _, _)
RunChunk(S, chunk, waiting) ==
  IF chunk = <<>> THEN <<S, waiting>>
  ELSE LET R == preloadVideo(S, Head(chunk))
       IN RunChunk(R, Tail(chunk),
                   IF R.ret = "pending" THEN waiting \cup {Head(chunk)} ELSE waiting)

FirstChunk(urls) == SubSeq(urls, 1, Min(maxConcurrent, Len(urls)))
AfterFirstChunk(urls) == SubSeq(urls, Min(maxConcurrent, Len(urls)) + 1, Len(urls))

\* A suspended invocation of preloadVideos: it awaits the promises of its
\* current chunk (stage "await") or the 100 ms pause between chunks on
\* mobile Safari (stage "sleep").
Batch(waiting, rest, multi) ==
  [stage |-> "await", waiting |-> waiting, rest |-> rest, multi |-> multi,
   wakeAt |-> NoTimer]

\* A continuation that is ready runs as a microtask, before any other task.
Ready(b) == b.stage = "await" /\ b.waiting = {}
MicrotaskPending == \E b \in batches : Ready(b)

\* the promises a step settled stop being waited for
Settle(bs, settled) ==
  {[b EXCEPT !.waiting = b.waiting \ {p[1] : p \in settled}] : b \in bs}

preloadVideos_cleanupFirst(S, urls) ==
  IF isCircuitOpenIn(S) THEN [st |-> Note(cleanupLRU(S), "skipped"), suspended |-> {}]
  ELSE LET R == RunChunk(cleanupLRU(S), FirstChunk(urls), {})
       IN [st |-> R[1],
           suspended |-> IF urls = <<>> THEN {}
                         ELSE {Batch(R[2], AfterFirstChunk(urls),
                                     Len(urls) > maxConcurrent)}]

\* preloadVideos(urls) up to its first await: the state it leaves and, when
\* it suspends, the suspended invocation.  With an empty list there is no
\* chunk and it returns without suspending.
preloadVideos(S, urls) ==
  IF isCircuitOpenIn(S) THEN [st |-> Note(S, "skipped"), suspended |-> {}]
  ELSE LET R == RunChunk(cleanupLRU(S), FirstChunk(urls), {})
       IN [st |-> R[1],
           suspended |-> IF urls = <<>> THEN {}
                         ELSE {Batch(R[2], AfterFirstChunk(urls),
                                     Len(urls) > maxConcurrent)}]

\* ------------------------------------------------------------------ actions
\* The runs explored: many urls at one instant, fewer urls over a longer
\* time, with or without preloadVideos being called with urls while the
\* circuit is closed.
Scenarios ==
  {[mobile |-> TRUE, urls |-> NumUrls, ticks |-> ShortTicks, batches |-> 0],
   [mobile |-> FALSE, urls |-> NumUrls, ticks |-> ShortTicks, batches |-> 0],
   [mobile |-> TRUE, urls |-> Min(MidUrls, NumUrls), ticks |-> MidTicks, batches |-> 0],
   [mobile |-> TRUE, urls |-> Min(FewUrls, NumUrls), ticks |-> MaxTicks, batches |-> 0],
   [mobile |-> TRUE, urls |-> Min(FewUrls, NumUrls), ticks |-> ChunkTicks, batches |-> MaxBatches],
   [mobile |-> FALSE, urls |-> Min(FewUrls, NumUrls), ticks |-> MaxTicks, batches |-> MaxBatches]}

\* Urls are names: the environment calls the first url it asks for 1, the
\* next new one 2, and so on.
EnvUrls == 1..Min(urlsSeen + 1, urlCount)
Max(a, b) == IF a >= b THEN a ELSE b

RECURSIVE InOrder(_, _)
InOrder(urls, seen) ==
  IF urls = <<>> THEN TRUE
  ELSE Head(urls) <= seen + 1 /\ InOrder(Tail(urls), Max(seen, Head(urls)))

RECURSIVE MaxOf(_)
MaxOf(urls) == IF urls = <<>> THEN 0 ELSE Max(Head(urls), MaxOf(Tail(urls)))

InitPreloaderIn(scenarios) ==
  /\ \E sc \in scenarios :
       /\ mobileSafari = sc.mobile /\ urlCount = sc.urls
       /\ horizon = sc.ticks /\ batchLimit = sc.batches
  /\ urlsSeen = 0
  /\ now = 0
  /\ available = <<>>
  /\ inUse = [u \in URLS |-> NoElem]
  /\ preloadedVideos = <<>>
  /\ preloadProgress = [u \in URLS |-> NoTimer]
  /\ loadingTimeouts = [u \in URLS |-> NoTimer]
  /\ inFlightPreloads = {}
  /\ handlerCleanups = {}
  /\ consecutiveFailures = 0
  /\ circuitOpenUntil = 0
  /\ calls = [u \in URLS |-> NoCall]
  /\ batches = {}
  /\ nextCleanupAt = TimerDue(0, MEMORY_CLEANUP_INTERVAL)
  /\ lastOp = {}

InitPreloader == InitPreloaderIn(Scenarios)

\* a timer whose delay has passed and whose callback has not run yet
TimerOverdue ==
  \/ \E u \in URLS : loadingTimeouts[u] # NoTimer /\ now >= loadingTimeouts[u]
  \/ \E u \in URLS : calls[u].phase = "retryWait" /\ now >= calls[u].retryAt
  \/ \E b \in batches : b.stage = "sleep" /\ now >= b.wakeAt
  \/ nextCleanupAt # NoTimer /\ now >= nextCleanupAt

\* Time passes once the timers that are due have fired.
Tick ==
  /\ ~MicrotaskPending
  /\ ~TimerOverdue
  /\ now < horizon * TickMs
  /\ now' = now + TickMs
  /\ lastOp' = {}
  /\ UNCHANGED <<besidesPreloader, urlCount, urlsSeen, horizon, batchLimit, mobileSafari, available, inUse, preloadedVideos,
                 preloadProgress, loadingTimeouts, inFlightPreloads,
                 handlerCleanups, consecutiveFailures, circuitOpenUntil, calls,
                 batches, nextCleanupAt>>

\* a direct call of the exported preloadVideo
PreloadVideo(url) ==
  /\ ~MicrotaskPending
  /\ \E S \in {preloadVideo(St, url)} :
       Commit(S)
  /\ urlsSeen' = Max(urlsSeen, url)
  /\ UNCHANGED <<besidesPreloader, urlCount, horizon, batchLimit, mobileSafari, now, batches, nextCleanupAt>>

UrlLists == UNION {[1..n -> 1..urlCount] : n \in 0..MaxListLen}

PreloadVideos(urls) ==
  /\ ~MicrotaskPending
  /\ InOrder(urls, urlsSeen)
  /\ (urls # <<>> /\ ~isCircuitOpen) => Cardinality(batches) < batchLimit
  /\ \E R \in {preloadVideos(St, urls)} :
       /\ Commit(R.st)
       /\ batches' = batches \cup R.suspended
  /\ urlsSeen' = Max(urlsSeen, MaxOf(urls))
  /\ UNCHANGED <<besidesPreloader, urlCount, horizon, batchLimit, mobileSafari, now, nextCleanupAt>>

\* the next chunk of a suspended preloadVideos, or its return
Proceed(b) ==
  IF b.rest = <<>>
  THEN /\ batches' = batches \ {b}
       /\ lastOp' = {}
       /\ UNCHANGED <<available, inUse, preloadedVideos, preloadProgress,
                      loadingTimeouts, inFlightPreloads, handlerCleanups,
                      consecutiveFailures, circuitOpenUntil, calls>>
  ELSE \E R \in {RunChunk(St, FirstChunk(b.rest), {})} :
          /\ Commit(R[1])
          /\ batches' = (batches \ {b}) \cup
               {Batch(R[2], AfterFirstChunk(b.rest), b.multi)}

\* await Promise.allSettled(promises) returns
BatchContinue(b) ==
  /\ Ready(b)
  /\ IF isMobileSafari /\ b.multi
     THEN /\ batches' = (batches \ {b}) \cup
               {[b EXCEPT !.stage = "sleep", !.wakeAt = TimerDue(now, chunkDelayMs)]}
          /\ lastOp' = {}
          /\ UNCHANGED <<available, inUse, preloadedVideos, preloadProgress,
                         loadingTimeouts, inFlightPreloads, handlerCleanups,
                         consecutiveFailures, circuitOpenUntil, calls>>
     ELSE Proceed(b)
  /\ UNCHANGED <<besidesPreloader, urlCount, urlsSeen, horizon, batchLimit, mobileSafari, now, nextCleanupAt>>

\* the 100 ms pause between chunks ends
BatchWake(b) ==
  /\ ~MicrotaskPending
  /\ b.stage = "sleep" /\ now >= b.wakeAt
  /\ Proceed(b)
  /\ UNCHANGED <<besidesPreloader, urlCount, urlsSeen, horizon, batchLimit, mobileSafari, now, nextCleanupAt>>

GetPreloadedVideo(url) ==
  /\ ~MicrotaskPending
  /\ url \in PvKeys(preloadedVideos)
  /\ Commit(getPreloadedVideo(St, url))
  /\ UNCHANGED <<besidesPreloader, urlCount, urlsSeen, horizon, batchLimit, mobileSafari, now, batches, nextCleanupAt>>

ClearPreloadedVideos ==
  /\ ~MicrotaskPending
  /\ Commit(clearPreloadedVideos(St))
  /\ UNCHANGED <<besidesPreloader, urlCount, urlsSeen, horizon, batchLimit, mobileSafari, now, batches, nextCleanupAt>>

\* Only the loaded urls among currentUrls matter to the call.
CleanupVideosNotInRange(currentUrls) ==
  /\ ~MicrotaskPending
  /\ Commit(cleanupVideosNotInRange(St, currentUrls))
  /\ UNCHANGED <<besidesPreloader, urlCount, urlsSeen, horizon, batchLimit, mobileSafari, now, batches, nextCleanupAt>>

\* the setInterval callback of the periodic memory cleanup
MemoryCleanup ==
  /\ ~MicrotaskPending
  /\ nextCleanupAt # NoTimer /\ now >= nextCleanupAt
  /\ LET S1 == cleanupLRU(St)
         S2 == IF isMobileSafari /\ Len(S1.pv) > 1 THEN cleanupLRU(S1) ELSE S1
     IN Commit(S2)
  /\ nextCleanupAt' = TimerDue(nextCleanupAt, MEMORY_CLEANUP_INTERVAL)
  /\ UNCHANGED <<besidesPreloader, urlCount, urlsSeen, horizon, batchLimit, mobileSafari, now, batches>>

\* ---- events of a <video> element that is being loaded by a call
ProgressValues == {0}

LoadStart(url) ==
  /\ ~MicrotaskPending
  /\ calls[url].phase = "loading" /\ calls[url].loadstart
  /\ preloadProgress' = [preloadProgress EXCEPT ![url] = 0]
  /\ calls' = [calls EXCEPT ![url].loadstart = FALSE]
  /\ lastOp' = {}
  /\ UNCHANGED <<besidesPreloader, urlCount, urlsSeen, horizon, batchLimit, mobileSafari, now, available, inUse, preloadedVideos,
                 loadingTimeouts, inFlightPreloads, handlerCleanups,
                 consecutiveFailures, circuitOpenUntil, batches, nextCleanupAt>>

Progress(url) ==
  /\ ~MicrotaskPending
  /\ calls[url].phase = "loading" /\ ~calls[url].loadstart
  /\ \E v \in ProgressValues : preloadProgress' = [preloadProgress EXCEPT ![url] = v]
  /\ lastOp' = {}
  /\ UNCHANGED <<besidesPreloader, urlCount, urlsSeen, horizon, batchLimit, mobileSafari, now, available, inUse, preloadedVideos,
                 loadingTimeouts, inFlightPreloads, handlerCleanups,
                 consecutiveFailures, circuitOpenUntil, calls, batches,
                 nextCleanupAt>>

CanPlay(url) ==
  /\ ~MicrotaskPending
  /\ calls[url].phase = "loading" /\ ~calls[url].loadstart
  /\ \E S \in {handleCanPlay(St, url)} :
        Commit(S) /\ batches' = Settle(batches, S.settled)
  /\ UNCHANGED <<besidesPreloader, urlCount, urlsSeen, horizon, batchLimit, mobileSafari, now, nextCleanupAt>>

Error(url) ==
  /\ ~MicrotaskPending
  /\ calls[url].phase = "loading" /\ ~calls[url].loadstart
  /\ \E S \in {handleError(St, url)} :
        Commit(S) /\ batches' = Settle(batches, S.settled)
  /\ UNCHANGED <<besidesPreloader, urlCount, urlsSeen, horizon, batchLimit, mobileSafari, now, nextCleanupAt>>

\* the setTimeout callback of a retry: video.src = url; video.load()
Retry(url) ==
  /\ ~MicrotaskPending
  /\ calls[url].phase = "retryWait" /\ now >= calls[url].retryAt
  /\ calls' = [calls EXCEPT ![url].phase = "loading", ![url].retryAt = 0]
  /\ lastOp' = {}
  /\ UNCHANGED <<besidesPreloader, urlCount, urlsSeen, horizon, batchLimit, mobileSafari, now, available, inUse, preloadedVideos,
                 preloadProgress, loadingTimeouts, inFlightPreloads,
                 handlerCleanups, consecutiveFailures, circuitOpenUntil, batches,
                 nextCleanupAt>>

\* the setTimeout callback for stuck loads
LoadTimeout(url) ==
  /\ ~MicrotaskPending
  /\ loadingTimeouts[url] # NoTimer /\ now >= loadingTimeouts[url]
  /\ \E S \in {loadTimeout(St, url)} :
        Commit(S) /\ batches' = Settle(batches, S.settled)
  /\ UNCHANGED <<besidesPreloader, urlCount, urlsSeen, horizon, batchLimit, mobileSafari, now, nextCleanupAt>>

NextPreloader ==
  \/ Tick
  \/ \E url \in EnvUrls : PreloadVideo(url)
  \/ \E urls \in UrlLists : PreloadVideos(urls)
  \/ \E b \in batches : BatchContinue(b)
  \/ \E b \in batches : BatchWake(b)
  \/ \E url \in URLS : GetPreloadedVideo(url)
  \/ ClearPreloadedVideos
  \/ \E currentUrls \in SUBSET PvKeys(preloadedVideos) :
        CleanupVideosNotInRange(currentUrls)
  \/ MemoryCleanup
  \/ \E url \in URLS : LoadStart(url)
  \/ \E url \in URLS : Progress(url)
  \/ \E url \in URLS : CanPlay(url)
  \/ \E url \in URLS : Error(url)
  \/ \E url \in URLS : Retry(url)
  \/ \E url \in URLS : LoadTimeout(url)


\* ================================================================ the feed
\* ------------------------------------------------------------------ bounds
MaxVideos == 4          \* videos in the longest manifest
MaxLoads == 2           \* loadVideos calls whose fetch may be in flight at once
FeedTickMs == TickMs \div 50   \* the feed's timers are multiples of 100 ms

\* the three revisions of the component, by the file that holds them
FeedVersions == {"part_001", "part_000", "DjannyTokFeed"}

\* ------------------------------------------------------- program constants
swipeThreshold == 50
preloadDelayMs == 500
keyLockMs == 500
touchLockMs == IF feedVersion = "part_000" THEN 300 ELSE 500

NoFinger == [y |-> NoTimer, onButton |-> FALSE]
NoPreload == [left |-> NoTimer, index |-> 0, videos |-> <<>>]
NoEvent == [kind |-> "none"]

\* ------------------------------------------------------ inputs of the runs
\* The server's manifest: 0..MaxVideos distinct videos, or the longest list
\* with its last entry pointing at the first video's url again.
Manifests ==
  {[i \in 1..n |-> i] : n \in 0..MaxVideos}
  \cup {[i \in 1..MaxVideos |-> IF i = MaxVideos THEN 1 ELSE i]}

\* where a touch starts, and where it ends: 60 and 50 px above, on, and 50 and
\* 60 px below the start
StartYs == {150}
EndYs == {90, 100, 150, 200, 210}
WheelDeltas == {-100, 0, 100}
Keys == {"ArrowDown", "ArrowUp", "Enter"}

Abs(x) == IF x < 0 THEN -x ELSE x

\* --------------------------------------------------------- the feed's state
\* The React state of the feed, the loader and the audio context as one
\* record; `videosSet` tells that the step called setVideos.
Fd == [videos |-> videos, loading |-> loading, error |-> error,
       loads |-> loadsInFlight,
       idx |-> currentVideoIndex, scr |-> isScrolling, lock |-> lockTimer,
       tsy |-> touchStartY, hui |-> hasUserInteracted, hes |-> hasEnabledSound,
       videosSet |-> FALSE]

\* prev => (prev + 1) % videos.length
nextIndex(prev, n) == (prev + 1) % n

\* prev => (prev - 1 + videos.length) % videos.length
prevIndex(prev, n) == (prev - 1 + n) % n

markUserInteraction(G) == [G EXCEPT !.hui = TRUE]

enableSound(G) == markUserInteraction([G EXCEPT !.hes = TRUE])

\* what a revision's navigation handlers call before they look at the input
audioCall(G) ==
  CASE feedVersion = "part_001" -> G
    [] feedVersion = "part_000" -> enableSound(G)
    [] feedVersion = "DjannyTokFeed" -> markUserInteraction(G)

\* The audio function among the dependencies of the navigation effects is a
\* useCallback: it is a new function exactly when one of these has changed.
audioDeps(G) ==
  CASE feedVersion = "part_001" -> <<>>
    [] feedVersion = "part_000" -> <<G.hes, G.hui>>
    [] feedVersion = "DjannyTokFeed" -> <<G.hui>>

navigationDeps(G) == <<G.idx, G.scr, Len(G.videos), audioDeps(G)>>

\* setIsScrolling(true); setCurrentVideoIndex(...); setTimeout(..., lockMs)
navigate(G, forward, lockMs) ==
  [G EXCEPT !.scr = TRUE,
            !.idx = IF forward THEN nextIndex(G.idx, Len(G.videos))
                    ELSE prevIndex(G.idx, Len(G.videos)),
            !.lock = lockMs]

handleTouchStart(G, y, onButton) ==
  IF feedVersion = "part_000" /\ onButton THEN G
  ELSE [G EXCEPT !.tsy = y]

handleTouchEnd(G, touchEndY, onButton) ==
  IF feedVersion = "part_000" /\ onButton THEN G
  ELSE IF G.scr \/ Len(G.videos) = 0 THEN G
  ELSE LET A == audioCall(G)
           deltaY == G.tsy - touchEndY
       IN IF Abs(deltaY) > swipeThreshold
          THEN navigate(A, deltaY > 0, touchLockMs)
          ELSE A

handleWheel_unlocked(G, deltaY) ==
  IF Len(G.videos) = 0 THEN G
  ELSE navigate(audioCall(G), deltaY > 0, touchLockMs)

handleWheel(G, deltaY) ==
  IF G.scr \/ Len(G.videos) = 0 THEN G
  ELSE navigate(audioCall(G), deltaY > 0, touchLockMs)

handleKeyDown(G, key) ==
  IF G.scr \/ Len(G.videos) = 0 THEN G
  ELSE IF key \in {"ArrowDown", "ArrowUp"}
  THEN navigate(audioCall(G), key = "ArrowDown", keyLockMs)
  ELSE G

preloadNext_always(index, vids) ==
  LET n == Len(vids)
      urlsToPreload == [i \in 1..2 |-> vids[((index + i) % n) + 1]]
      prev == vids[((index - 1 + n) % n) + 1]
  IN Append(urlsToPreload, prev)

\* preloadNext: the list it passes to preloadVideos
preloadNext(index, vids) ==
  LET n == Len(vids)
      urlsToPreload == [i \in 1..2 |-> vids[((index + i) % n) + 1]]
      prev == vids[((index - 1 + n) % n) + 1]
  IN IF prev \in Range(urlsToPreload) THEN urlsToPreload
     ELSE Append(urlsToPreload, prev)

\* loadVideos up to its await fetch(...)
loadVideos(G) == [G EXCEPT !.loading = TRUE, !.error = FALSE, !.loads = G.loads + 1]

\* refreshVideos, and the effect on [lastRefresh] that calls loadVideos once
\* more: setLastRefresh(Date.now()) changes lastRefresh, two calls being at
\* least a millisecond apart
refreshVideos(G) ==
  loadVideos(loadVideos(G))

\* the rest of loadVideos when the manifest arrived and parsed
loadSucceeded(G, manifest) ==
  [G EXCEPT !.videos = manifest, !.videosSet = TRUE, !.loading = FALSE,
            !.loads = G.loads - 1]

\* the rest of loadVideos when fetch, the status check or the parse threw
loadFailed(G) ==
  [G EXCEPT !.error = TRUE, !.videos = <<>>, !.videosSet = TRUE,
            !.loading = FALSE, !.loads = G.loads - 1]

\* The render that follows a step, with the effects whose dependencies it
\* changed: the navigation effect is installed anew, with a fresh
\* touchStartY; in part_000 the preload effect clears its timer and, unless
\* the list is empty, sets a new one.
Render(G) ==
  LET changed == G.idx # currentVideoIndex \/ G.videosSet
  IN /\ videos' = G.videos
     /\ loading' = G.loading
     /\ error' = G.error
     /\ loadsInFlight' = G.loads
     /\ currentVideoIndex' = G.idx
     /\ isScrolling' = G.scr
     /\ lockTimer' = G.lock
     /\ hasUserInteracted' = G.hui
     /\ hasEnabledSound' = G.hes
     /\ touchStartY' = IF navigationDeps(G) # navigationDeps(Fd) THEN 0 ELSE G.tsy
     /\ sinceChange' = IF feedVersion = "part_000" /\ changed THEN 0 ELSE sinceChange
     /\ preloadTimer' =
          IF feedVersion = "part_000" /\ changed
          THEN IF Len(G.videos) = 0 THEN NoPreload
               ELSE [left |-> preloadDelayMs, index |-> G.idx, videos |-> G.videos]
          ELSE preloadTimer

\* the state after the first render and its effects: the loader has started
\* its first load
InitFeedIn(versions) ==
  /\ feedVersion \in versions
  /\ videos = <<>>
  /\ loading = TRUE
  /\ error = FALSE
  /\ loadsInFlight = 1
  /\ currentVideoIndex = 0
  /\ isScrolling = FALSE
  /\ lockTimer = NoTimer
  /\ touchStartY = 0
  /\ finger = NoFinger
  /\ hasUserInteracted = FALSE
  /\ hasEnabledSound = FALSE
  /\ preloadTimer = NoPreload
  /\ sinceChange = 0
  /\ event = NoEvent

InitFeed == InitFeedIn(FeedVersions)

\* The feed reads the clock only to set lastRefresh, so its model keeps the
\* time its timers have left, not Date.now().
FeedTimerOverdue ==
  \/ lockTimer # NoTimer /\ lockTimer <= 0
  \/ preloadTimer # NoPreload /\ preloadTimer.left <= 0

\* FeedTickMs pass, once the timers that are due have fired
FeedTick ==
  /\ ~FeedTimerOverdue
  /\ lockTimer' = IF lockTimer = NoTimer THEN NoTimer ELSE lockTimer - FeedTickMs
  /\ preloadTimer' = IF preloadTimer = NoPreload THEN NoPreload
                     ELSE [preloadTimer EXCEPT !.left = @ - FeedTickMs]
  /\ sinceChange' = IF feedVersion = "part_000"
                     THEN Min(sinceChange + FeedTickMs, preloadDelayMs)
                     ELSE sinceChange
  /\ event' = NoEvent
  /\ UNCHANGED <<besidesFeed, now, feedVersion, videos, loading, error, loadsInFlight,
                 currentVideoIndex, isScrolling, touchStartY, finger,
                 hasUserInteracted, hasEnabledSound>>

\* what the user did, whatever the handlers make of it
Gesture(moved) ==
  IF moved > swipeThreshold THEN "next"
  ELSE IF moved < -swipeThreshold THEN "previous"
  ELSE "short"

Input(kind) == [kind |-> kind]

TouchStart(y, onButton) ==
  /\ finger = NoFinger
  /\ onButton => feedVersion = "part_000"
  /\ Render(handleTouchStart(Fd, y, onButton))
  /\ finger' = [y |-> y, onButton |-> onButton]
  /\ event' = NoEvent
  /\ UNCHANGED <<besidesFeed, now, feedVersion>>

TouchEnd(y) ==
  /\ finger # NoFinger
  /\ Render(handleTouchEnd(Fd, y, finger.onButton))
  /\ finger' = NoFinger
  /\ event' = Input(IF finger.onButton THEN "other" ELSE Gesture(finger.y - y))
  /\ UNCHANGED <<besidesFeed, now, feedVersion>>

Wheel(deltaY) ==
  /\ Render(handleWheel(Fd, deltaY))
  /\ event' = Input(IF deltaY > 0 THEN "next"
                    ELSE IF deltaY < 0 THEN "previous" ELSE "other")
  /\ UNCHANGED <<besidesFeed, now, feedVersion, finger>>

KeyDown(key) ==
  /\ Render(handleKeyDown(Fd, key))
  /\ event' = Input(IF key = "ArrowDown" THEN "next"
                    ELSE IF key = "ArrowUp" THEN "previous" ELSE "other")
  /\ UNCHANGED <<besidesFeed, now, feedVersion, finger>>

\* the setTimeout callback () => setIsScrolling(false)
LockRelease ==
  /\ lockTimer # NoTimer /\ lockTimer <= 0
  /\ Render([Fd EXCEPT !.scr = FALSE, !.lock = NoTimer])
  /\ event' = NoEvent
  /\ UNCHANGED <<besidesFeed, now, feedVersion, finger>>

\* the setTimeout callback preloadNext. Its call of preloadVideos is the
\* action PreloadVideos(urls) of the preloader, which accepts every list;
\* here the list it passes is kept in event.
PreloadNext ==
  /\ preloadTimer # NoPreload /\ preloadTimer.left <= 0
  /\ preloadTimer' = NoPreload
  /\ event' = [kind |-> "preloadNext",
               urls |-> preloadNext(preloadTimer.index, preloadTimer.videos)]
  /\ UNCHANGED <<besidesFeed, now, feedVersion, videos, loading, error, loadsInFlight,
                 currentVideoIndex, isScrolling, lockTimer,
                 touchStartY, finger, hasUserInteracted, hasEnabledSound,
                 sinceChange>>

\* refreshVideos: a button, the pull-to-refresh gesture or the 5-minute interval
RefreshVideos ==
  /\ \E G \in {refreshVideos(Fd)} : G.loads <= MaxLoads /\ Render(G)
  /\ event' = NoEvent
  /\ UNCHANGED <<besidesFeed, now, feedVersion, finger>>

LoadSucceeds(manifest) ==
  /\ loadsInFlight > 0
  /\ Render(loadSucceeded(Fd, manifest))
  /\ event' = NoEvent
  /\ UNCHANGED <<besidesFeed, now, feedVersion, finger>>

LoadFails ==
  /\ loadsInFlight > 0
  /\ Render(loadFailed(Fd))
  /\ event' = NoEvent
  /\ UNCHANGED <<besidesFeed, now, feedVersion, finger>>

NextFeed ==
  \/ FeedTick
  \/ \E y \in StartYs, onButton \in BOOLEAN : TouchStart(y, onButton)
  \/ \E y \in EndYs : TouchEnd(y)
  \/ \E deltaY \in WheelDeltas : Wheel(deltaY)
  \/ \E key \in Keys : KeyDown(key)
  \/ LockRelease
  \/ PreloadNext
  \/ RefreshVideos
  \/ \E manifest \in Manifests : LoadSucceeds(manifest)
  \/ LoadFails


\* ======================================================== the password gate
\* ------------------------------------------------------------------ bounds
MaxGateTicks == 3       \* half days the gate's clock advances
MaxSubmits == 2         \* submits whose 500 ms the gate's clock counts

\* ------------------------------------------------------- program constants
CORRECT_PASSWORD == "djanny2024"
SESSION_DURATION == 24 * 60 * 60 * 1000
submitDelayMs == 500
GateTickMs == SESSION_DURATION \div 2

\* ------------------------------------------------------ inputs of the runs
Passwords == {CORRECT_PASSWORD, "djanny2025", ""}

\* What local storage can hold under AUTH_KEY: nothing, the empty string,
\* text that is not JSON, the JSON text null, or the JSON text of an object
\* whose authenticated is true, false, another value ("no") or missing and
\* whose timestamp is a number or missing.
Entry(kind) ==
  [kind |-> kind, authenticated |-> "undefined", hasTimestamp |-> FALSE,
   timestamp |-> 0]
Session(authenticated, hasTimestamp, timestamp) ==
  [kind |-> "object", authenticated |-> authenticated,
   hasTimestamp |-> hasTimestamp, timestamp |-> timestamp]
NoEntry == Entry("absent")
NoSubmit == [left |-> NoTimer, password |-> ""]

\* timestamps of the sessions found at the first mount, the clock being 0:
\* just expired, a millisecond younger, half a day old, half a day ahead
StoredTimestamps ==
  {-SESSION_DURATION, 1 - SESSION_DURATION, -GateTickMs, GateTickMs}

StoredEntries ==
  {Entry(k) : k \in {"absent", "empty", "garbage", "null"}}
  \cup {Session(a, TRUE, t) : a \in {"true", "false", "no"}, t \in StoredTimestamps}
  \cup {Session("true", FALSE, 0), Session("undefined", TRUE, -GateTickMs)}

\* a JavaScript value in a condition; `authenticated` holds the JSON text
Truthy(authenticated) == authenticated \in {"true", "no"}

\* ------------------------------------------------------- the gate's state
Gt == [stored |-> stored, auth |-> isAuthenticated, password |-> password,
       error |-> gateError, loading |-> isLoading, timer |-> submitTimer,
       ops |-> {}]

removeItem(G) == [G EXCEPT !.stored = NoEntry, !.ops = G.ops \cup {"removeItem"}]

setItem(G, value) == [G EXCEPT !.stored = value, !.ops = G.ops \cup {"setItem"}]

\* the effect that runs once after the first render.  getItem gives null
\* for no entry and '' for an empty one; JSON.parse throws on text that is
\* not JSON, and reading a property of null throws; a missing timestamp
\* makes the age NaN, which is not below anything.
mountEffect(G) ==
  IF G.stored.kind \in {"absent", "empty"} THEN G
  ELSE IF G.stored.kind \in {"garbage", "null"} THEN removeItem(G)
  ELSE IF /\ Truthy(G.stored.authenticated)
          /\ G.stored.hasTimestamp
          /\ wallClock - G.stored.timestamp < SESSION_DURATION
  THEN [G EXCEPT !.auth = TRUE]
  ELSE removeItem(G)

\* handleSubmit up to its setTimeout; the callback closes over the password
\* of this render
handleSubmit(G) ==
  [G EXCEPT !.error = FALSE, !.loading = TRUE,
            !.timer = [left |-> submitDelayMs, password |-> G.password]]

\* the setTimeout callback of handleSubmit
submitCallback(G) ==
  LET R == IF G.timer.password = CORRECT_PASSWORD
           THEN [setItem(G, Session("true", TRUE, wallClock)) EXCEPT !.auth = TRUE]
           ELSE [G EXCEPT !.error = TRUE, !.password = ""]
  IN [R EXCEPT !.loading = FALSE, !.timer = NoSubmit]

RenderGate(G) ==
  /\ stored' = G.stored
  /\ isAuthenticated' = G.auth
  /\ password' = G.password
  /\ gateError' = G.error
  /\ isLoading' = G.loading
  /\ submitTimer' = G.timer
  /\ gateOps' = G.ops

\* the children are rendered
ChildrenRendered == isAuthenticated

\* the page is loaded with whatever local storage holds
InitGateIn(entries) ==
  /\ wallClock = 0
  /\ stored \in entries
  /\ gatePhase = "mounting"
  /\ isAuthenticated = FALSE
  /\ password = ""
  /\ gateError = FALSE
  /\ isLoading = FALSE
  /\ submitTimer = NoSubmit
  /\ gateOps = {}

InitGate == InitGateIn(StoredEntries)

\* ------------------------------------------------------------------ actions
MountEffect ==
  /\ gatePhase = "mounting"
  /\ gatePhase' = "mounted"
  /\ RenderGate(mountEffect(Gt))
  /\ UNCHANGED <<besidesGate, wallClock>>

\* onChange of the input, which is disabled while isLoading
TypePassword(p) ==
  /\ gatePhase = "mounted" /\ ~isAuthenticated /\ ~isLoading
  /\ RenderGate([Gt EXCEPT !.password = p])
  /\ UNCHANGED <<besidesGate, wallClock, gatePhase>>

\* the form is submitted: by the button, which is disabled while the
\* password is blank, or by Enter in the input
Submit(byEnter) ==
  /\ gatePhase = "mounted" /\ ~isAuthenticated /\ ~isLoading
  /\ byEnter \/ password # ""
  /\ (wallClock % GateTickMs) < MaxSubmits * submitDelayMs
  /\ RenderGate(handleSubmit(Gt))
  /\ UNCHANGED <<besidesGate, wallClock, gatePhase>>

SubmitCallback ==
  /\ submitTimer # NoSubmit /\ submitTimer.left = 0
  /\ RenderGate(submitCallback(Gt))
  /\ UNCHANGED <<besidesGate, wallClock, gatePhase>>

\* d milliseconds pass, no timer being overdue
GateTick(d) ==
  /\ gatePhase = "mounted"
  /\ IF submitTimer = NoSubmit
     THEN /\ d = GateTickMs
          /\ wallClock + d <= MaxGateTicks * GateTickMs + MaxSubmits * submitDelayMs
          /\ submitTimer' = NoSubmit
     ELSE /\ d = submitTimer.left /\ d > 0
          /\ submitTimer' = [submitTimer EXCEPT !.left = 0]
  /\ wallClock' = wallClock + d
  /\ gateOps' = {}
  /\ UNCHANGED <<besidesGate, stored, gatePhase, isAuthenticated, password,
                 gateError, isLoading>>

\* the page is loaded again: pending timers are gone, local storage stays
Reload ==
  /\ gatePhase = "mounted"
  /\ gatePhase' = "mounting"
  /\ RenderGate([Gt EXCEPT !.auth = FALSE, !.password = "", !.error = FALSE,
                           !.loading = FALSE, !.timer = NoSubmit])
  /\ UNCHANGED <<besidesGate, wallClock>>

NextGate ==
  \/ MountEffect
  \/ \E p \in Passwords : TypePassword(p)
  \/ \E byEnter \in BOOLEAN : Submit(byEnter)
  \/ SubmitCallback
  \/ \E d \in {submitDelayMs, GateTickMs} : GateTick(d)
  \/ Reload

\* ============================================================= the players
\* The VideoPlayer of the second half of VideoPlayer.tsx, as DjannyTokFeed.tsx
\* mounts it: one player per video, without a preloadedVideo.  The <video>
\* element follows the HTML standard: play() clears paused and leaves a
\* promise that is resolved when playback starts; a play() the autoplay
\* policy refuses leaves a rejected promise and the element as it was;
\* pause() sets paused and rejects the promises still pending.
\* ------------------------------------------------------------------ bounds
MaxPlayers == 2         \* videos of the loaded manifest, one player each

\* ------------------------------------------------------- program constants
autoplayDelayMs == 100

Players == 0..(MaxPlayers - 1)
PlayCalls == {"attemptPlay", "fallback", "click"}
NoAuto == [left |-> NoTimer, isActive |-> FALSE, shouldBeMuted |-> FALSE]

autoplayWithSound_ignoringMute(G) == G.hui /\ G.hes

\* hasUserInteracted && hasEnabledSound && !isGloballyMuted
autoplayWithSound(G) == G.hui /\ G.hes /\ ~G.igm

\* ------------------------------------------------------ the players' state
\* the state of the feed and of the audio provider with that of the players
Pl == [videos |-> videos, loading |-> loading, error |-> error,
       loads |-> loadsInFlight,
       idx |-> currentVideoIndex, scr |-> isScrolling, lock |-> lockTimer,
       tsy |-> touchStartY, hui |-> hasUserInteracted, hes |-> hasEnabledSound,
       videosSet |-> FALSE,
       igm |-> isGloballyMuted, muted |-> muted, paused |-> paused,
       playing |-> isPlaying, err |-> hasError, timer |-> autoTimer,
       pending |-> pending, rejected |-> rejected]

\* const shouldBeMuted = isMobileDevice || !shouldAutoplayWithSound, as the
\* last render computed it and as the render after a step will
shouldBeMuted == isMobileDevice \/ ~shouldAutoplayWithSound

shouldBeMutedNext(G) == isMobileDevice \/ ~autoplayWithSound(G)

\* toggleGlobalMute: the updater negates the state, the test reads the
\* isGloballyMuted of the render that made the callback
toggleGlobalMute(G) ==
  LET T == [G EXCEPT !.igm = ~G.igm]
  IN IF isGloballyMuted THEN enableSound(T) ELSE T

\* video.play()
play(G, i, call, allowed) ==
  IF allowed
  THEN [G EXCEPT !.paused[i] = FALSE, !.pending[i] = @ \cup {call}]
  ELSE [G EXCEPT !.rejected[i] = @ \cup {call}]

\* video.pause()
pause(G, i) ==
  [G EXCEPT !.paused[i] = TRUE, !.rejected[i] = @ \cup G.pending[i],
            !.pending[i] = {}]

\* attemptPlay up to its await, with the isActive and shouldBeMuted of the
\* render whose effect set the timer
attemptPlay(G, i, allowed) ==
  LET c == G.timer[i]
      M == [G EXCEPT !.muted[i] = c.shouldBeMuted, !.timer[i] = NoAuto]
  IN IF c.isActive THEN play(M, i, "attemptPlay", allowed)
     ELSE [pause(M, i) EXCEPT !.playing[i] = FALSE]

\* playback started: what follows each await video.play() and the .then of
\* handleVideoClick
playResolved(G, i) ==
  [G EXCEPT !.playing[i] = TRUE, !.pending[i] = {}]

\* the catch of attemptPlay, the inner catch of its mobile branch, and the
\* .catch of handleVideoClick
playRejected(G, i, call, allowed) ==
  LET R == [G EXCEPT !.rejected[i] = @ \ {call}]
  IN CASE call = "attemptPlay" ->
            IF isMobileDevice
            THEN play([R EXCEPT !.muted[i] = TRUE], i, "fallback", allowed)
            ELSE R
       [] call = "fallback" -> [R EXCEPT !.playing[i] = FALSE]
       [] call = "click" -> R

handleVideoClick(G, i, allowed) ==
  LET A == markUserInteraction(G)
  IN IF isPlaying[i] THEN [pause(A, i) EXCEPT !.playing[i] = FALSE]
     ELSE play([A EXCEPT !.muted[i] = shouldBeMuted], i, "click", allowed)

handleMuteToggle(G, i) ==
  [toggleGlobalMute(markUserInteraction(G)) EXCEPT
     !.muted[i] = ~shouldAutoplayWithSound]

\* the element's error event: the promises still pending are rejected, and
\* the listener does setIsLoading(false); setHasError(true)
videoError(G, i) ==
  [G EXCEPT !.err[i] = TRUE, !.rejected[i] = @ \cup G.pending[i],
            !.pending[i] = {}]

\* the dependencies of a player's autoplay effect
autoplayDeps(idx, err, sbm, i) == <<i = idx, err[i], sbm, isMobileDevice>>

\* The render that follows a step: that of the feed, and that of each
\* player.  React writes the muted prop to the element when it has changed;
\* an autoplay effect whose dependencies changed clears its timer and, unless
\* the player is in error, sets a new one.
RenderPlayers(G) ==
  LET sbm == shouldBeMutedNext(G)
  IN /\ Render(G)
     /\ isGloballyMuted' = G.igm
     /\ shouldAutoplayWithSound' = autoplayWithSound(G)
     /\ muted' = [i \in Players |-> IF sbm # shouldBeMuted THEN sbm ELSE G.muted[i]]
     /\ paused' = G.paused
     /\ isPlaying' = G.playing
     /\ hasError' = G.err
     /\ pending' = G.pending
     /\ rejected' = G.rejected
     /\ autoTimer' =
          [i \in Players |->
             IF autoplayDeps(G.idx, G.err, sbm, i)
                  = autoplayDeps(currentVideoIndex, hasError, shouldBeMuted, i)
             THEN G.timer[i]
             ELSE IF G.err[i] THEN NoAuto
             ELSE [left |-> autoplayDelayMs, isActive |-> i = G.idx,
                   shouldBeMuted |-> sbm]]

\* the players after their first render and its effects
InitPlayersIn(mobiles) ==
  /\ isMobileDevice \in mobiles
  /\ isGloballyMuted = FALSE
  /\ shouldAutoplayWithSound = FALSE
  /\ muted = [i \in Players |-> TRUE]
  /\ paused = [i \in Players |-> TRUE]
  /\ isPlaying = [i \in Players |-> FALSE]
  /\ hasError = [i \in Players |-> FALSE]
  /\ autoTimer = [i \in Players |->
                    [left |-> autoplayDelayMs, isActive |-> i = 0,
                     shouldBeMuted |-> TRUE]]
  /\ pending = [i \in Players |-> {}]
  /\ rejected = [i \in Players |-> {}]

InitPlayers == InitPlayersIn(BOOLEAN)

\* the feed once the first load has brought a manifest of MaxPlayers videos
InitFeedLoaded ==
  /\ feedVersion = "DjannyTokFeed"
  /\ videos = [i \in 1..MaxPlayers |-> i]
  /\ loading = FALSE
  /\ error = FALSE
  /\ loadsInFlight = 0
  /\ currentVideoIndex = 0
  /\ isScrolling = FALSE
  /\ lockTimer = NoTimer
  /\ touchStartY = 0
  /\ finger = NoFinger
  /\ hasUserInteracted = FALSE
  /\ hasEnabledSound = FALSE
  /\ preloadTimer = NoPreload
  /\ sinceChange = 0
  /\ event = NoEvent

\* the time the players' timers have left
TimersLeft ==
  {lockTimer : x \in {1} \cap (IF lockTimer = NoTimer THEN {} ELSE {1})}
  \cup {autoTimer[i].left : i \in {j \in Players : autoTimer[j] # NoAuto}}

\* no rejected promise waits for its handler: the handlers are microtasks,
\* which run before any other event is handled
Settled == \A i \in Players : rejected[i] = {}

\* time passes until the next timer is due
PlayerTick ==
  /\ Settled
  /\ TimersLeft # {}
  /\ \A t \in TimersLeft : t > 0
  /\ LET d == CHOOSE t \in TimersLeft : \A u \in TimersLeft : t <= u
     IN /\ lockTimer' = IF lockTimer = NoTimer THEN NoTimer ELSE lockTimer - d
        /\ autoTimer' = [i \in Players |->
                           IF autoTimer[i] = NoAuto THEN NoAuto
                           ELSE [autoTimer[i] EXCEPT !.left = @ - d]]
  /\ event' = NoEvent
  /\ UNCHANGED <<besidesPlayers, feedVersion, videos, loading, error,
                 loadsInFlight, currentVideoIndex, isScrolling, touchStartY,
                 finger, hasUserInteracted, hasEnabledSound, preloadTimer,
                 sinceChange, isMobileDevice, isGloballyMuted,
                 shouldAutoplayWithSound, muted, paused, isPlaying, hasError,
                 pending, rejected>>

PlayerStep(G) ==
  /\ RenderPlayers(G)
  /\ event' = NoEvent
  /\ UNCHANGED <<besidesPlayers, feedVersion, finger, isMobileDevice>>

\* the setTimeout callback () => setIsScrolling(false) of the feed
PlayerLockRelease ==
  /\ Settled
  /\ lockTimer # NoTimer /\ lockTimer <= 0
  /\ PlayerStep([Pl EXCEPT !.scr = FALSE, !.lock = NoTimer])

\* a navigation of the feed: here by the arrow keys
Navigate(key) ==
  /\ Settled
  /\ ~isScrolling
  /\ PlayerStep(handleKeyDown(Pl, key))

\* the setTimeout callback attemptPlay
AttemptPlay(i, allowed) ==
  /\ Settled
  /\ autoTimer[i] # NoAuto /\ autoTimer[i].left <= 0
  /\ PlayerStep(attemptPlay(Pl, i, allowed))

\* the element starts playing
PlayResolved(i) ==
  /\ Settled
  /\ pending[i] # {}
  /\ PlayerStep(playResolved(Pl, i))

PlayRejected(i, call, allowed) ==
  /\ call \in rejected[i]
  /\ PlayerStep(playRejected(Pl, i, call, allowed))

\* a tap on the video on screen
VideoClick(allowed) ==
  /\ Settled
  /\ PlayerStep(handleVideoClick(Pl, currentVideoIndex, allowed))

\* a tap on the mute button of the video on screen
MuteToggle ==
  /\ Settled
  /\ PlayerStep(handleMuteToggle(Pl, currentVideoIndex))

VideoError(i) ==
  /\ Settled
  /\ ~hasError[i]
  /\ PlayerStep(videoError(Pl, i))

NextPlayers ==
  \/ PlayerTick
  \/ PlayerLockRelease
  \/ \E key \in {"ArrowDown", "ArrowUp"} : Navigate(key)
  \/ \E i \in Players, allowed \in BOOLEAN : AttemptPlay(i, allowed)
  \/ \E i \in Players : PlayResolved(i)
  \/ \E i \in Players, call \in PlayCalls, allowed \in BOOLEAN :
        PlayRejected(i, call, allowed)
  \/ \E allowed \in BOOLEAN : VideoClick(allowed)
  \/ MuteToggle
  \/ \E i \in Players : VideoError(i)


\* =============================================== the loader's interval
\* ------------------------------------------------------------------ bounds
MaxRefreshes == 2       \* runs of the interval the loader's clock allows for

\* ------------------------------------------------------- program constants
refreshIntervalMs == 5 * 60 * 1000
LoaderTickMs == 60 * 1000   \* the loader's clock advances by minutes

cleanupInterval_none(left) == left

\* the cleanup of the interval effect: clearInterval(interval)
cleanupInterval(left) == NoTimer

\* the loader after its first render and its effects; its first load is
\* that of InitFeedIn
InitLoader ==
  /\ loaderMounted = TRUE
  /\ intervalLeft = refreshIntervalMs
  /\ sinceMount = 0
  /\ intervalRefreshes = 0

IntervalDue == intervalLeft # NoTimer /\ intervalLeft <= 0

\* A minute passes, once the interval has run if it was due; a fetch settles
\* within the minute it was started in.
LoaderTick ==
  /\ ~IntervalDue
  /\ loadsInFlight = 0
  /\ sinceMount < MaxRefreshes * refreshIntervalMs + LoaderTickMs
  /\ sinceMount' = sinceMount + LoaderTickMs
  /\ intervalLeft' = IF intervalLeft = NoTimer THEN NoTimer
                     ELSE intervalLeft - LoaderTickMs
  /\ UNCHANGED <<besidesLoader, fvars, loaderMounted, intervalRefreshes>>

\* the interval's callback () => { refreshVideos(); }, and the interval set
\* for its next run.  After the unmount the setters refreshVideos calls write
\* state that nothing renders.
IntervalRefresh ==
  /\ IntervalDue
  /\ intervalLeft' = refreshIntervalMs
  /\ intervalRefreshes' = intervalRefreshes + 1
  /\ Render(refreshVideos(Fd))
  /\ event' = NoEvent
  /\ UNCHANGED <<besidesLoader, feedVersion, finger, loaderMounted, sinceMount>>

\* the component using the loader is unmounted: the effects' cleanups run
Unmount ==
  /\ loaderMounted
  /\ loaderMounted' = FALSE
  /\ intervalLeft' = cleanupInterval(intervalLeft)
  /\ UNCHANGED <<besidesLoader, fvars, sinceMount, intervalRefreshes>>

NextLoader ==
  \/ LoaderTick
  \/ IntervalRefresh
  \/ Unmount
  \/ \E manifest \in Manifests : LoadSucceeds(manifest)
  \/ LoadFails


\* ============================================ the loader's map of the urls
\* A url is a sequence of pieces: the host 'dropbox.com', the parameters
\* 'dl=1' and 'dl=10' (which contains 'dl=1'), and other text.
\* ------------------------------------------------------------------ bounds
MaxUrlLen == 3          \* pieces of the longest url of a manifest entry

LoaderVersions == {"useVideoLoader", "part_006"}
Pieces == {"dropbox.com", "dl=1", "dl=10", "other"}
ManifestUrls == UNION {[1..n -> Pieces] : n \in 0..MaxUrlLen}
Filenames == {<<"other">>, <<"dropbox.com", "dl=1">>}
Entries == [videoUrl : ManifestUrls, filename : Filenames]
Undefined == <<"undefined">>
NotMapped == [videoUrl |-> <<>>, alternativeUrl |-> <<>>]

\* originalUrl.includes(text), for text 'dropbox.com' or 'dl=1'
Includes(url, text) ==
  \E i \in 1..Len(url) :
    url[i] = text \/ (text = "dl=1" /\ url[i] = "dl=10")

\* originalUrl.replace('dl=1', 'raw=1'): the first occurrence only
replaceDl(url) ==
  LET first == CHOOSE i \in 1..Len(url) :
                 /\ url[i] \in {"dl=1", "dl=10"}
                 /\ \A j \in 1..(i - 1) : url[j] \notin {"dl=1", "dl=10"}
  IN [url EXCEPT ![first] = IF @ = "dl=1" THEN "raw=1" ELSE "raw=10"]

convertDropboxUrl(originalUrl) ==
  IF Includes(originalUrl, "dropbox.com") /\ Includes(originalUrl, "dl=1")
  THEN LET rawUrl == replaceDl(originalUrl)
       IN IF loaderVersion = "part_006" \/ isMobile
          THEN [primary |-> rawUrl, fallback |-> originalUrl]
          ELSE [primary |-> originalUrl, fallback |-> rawUrl]
  ELSE [primary |-> originalUrl, fallback |-> originalUrl]

\* video.videoUrl || `${baseUrl}videos/${video.filename}`: '' is falsy
originalUrlOf(video) ==
  IF video.videoUrl # <<>> THEN video.videoUrl
  ELSE <<"other">> \o video.filename

\* the callback of data.videos.map
mapVideo(video) ==
  LET c == convertDropboxUrl(originalUrlOf(video))
  IN [videoUrl |-> c.primary,
      alternativeUrl |-> IF c.fallback # c.primary THEN c.fallback ELSE Undefined]

InitMapIn(versions, mobiles, entries) ==
  /\ loaderVersion \in versions
  /\ isMobile \in mobiles
  /\ mapIndex = 0
  /\ manifestEntry \in entries
  /\ mapped = NotMapped

InitMap == InitMapIn(LoaderVersions, BOOLEAN, Entries)

\* the map before a manifest has arrived
MapIdle ==
  InitMapIn({"useVideoLoader"}, {FALSE},
            {[videoUrl |-> <<>>, filename |-> <<"other">>]})

\* the map's callback runs for the entry
MapVideo ==
  /\ mapped = NotMapped
  /\ mapped' = mapVideo(manifestEntry)
  /\ UNCHANGED <<besidesMap, loaderVersion, isMobile, mapIndex, manifestEntry>>

\* the map goes on to the next entry of the manifest
NextEntry ==
  /\ mapped # NotMapped
  /\ mapIndex < MaxVideos - 1
  /\ mapIndex' = mapIndex + 1
  /\ manifestEntry' \in Entries
  /\ mapped' = NotMapped
  /\ UNCHANGED <<besidesMap, loaderVersion, isMobile>>

NextMap ==
  \/ MapVideo
  \/ NextEntry


\* ===================================================== the player's retries
\* VideoPlayer in the two revisions that retry a failed load: the one that
\* asks Cloudinary for the video in another format (VideoPlayer.tsx) and the
\* one that falls back to alternative urls (part_005).  The <video> element
\* is the environment: it loads the src React gives it, fires loadstart, and
\* then canplay or error as the fixed set `loads` says, after any delay.
\* ------------------------------------------------------------------ bounds
MaxPresses == 2          \* times 'Try Again' is pressed in a run

\* ------------------------------------------------------- program constants
mobileLoadTimeoutMs == 15 * 1000
RetryTickMs == TickMs

\* ------------------------------------------------------ inputs of the runs
\* A Cloudinary url is <base>/upload/<transformation>/<publicId><ext>; base
\* and publicId are the same in every format of one video.
NoUrl == ""
Originals ==
  {[transformation |-> "", ext |-> ".mp4"],
   [transformation |-> "f_auto,q_auto:good,fl_progressive", ext |-> ""]}

\* the props of the player: one Cloudinary url, or up to three Dropbox urls
PropsOf(version) ==
  IF version = "VideoPlayer"
  THEN {[videoUrl |-> o, alternativeUrl |-> NoUrl, directUrl |-> NoUrl] : o \in Originals}
  ELSE {[videoUrl |-> "dl", alternativeUrl |-> a, directUrl |-> d] :
          a \in {NoUrl, "dl", "raw"}, d \in {NoUrl, "dl", "raw", "direct"}}

\* ------------------------------------------------------ the player's state
getOptimizedVideoUrl(originalUrl, retryAttempt) ==
  CASE retryAttempt = 0 ->
         [transformation |-> "f_auto,q_auto:good,fl_progressive", ext |-> ""]
    [] retryAttempt = 1 ->
         [transformation |-> "f_auto,q_auto:low,fl_progressive", ext |-> ""]
    [] retryAttempt = 2 ->
         [transformation |-> "f_mp4,q_auto:low", ext |-> ".mp4"]
    [] OTHER -> originalUrl

getAllUrls(pr) ==
  LET urls1 == <<pr.videoUrl>>
      urls2 == IF pr.alternativeUrl # NoUrl /\ pr.alternativeUrl \notin Range(urls1)
               THEN Append(urls1, pr.alternativeUrl) ELSE urls1
  IN IF pr.directUrl # NoUrl /\ pr.directUrl \notin Range(urls2)
     THEN Append(urls2, pr.directUrl) ELSE urls2

\* Array.prototype.indexOf, zero-based
indexOf(urls, u) ==
  IF u \in Range(urls)
  THEN (CHOOSE i \in 1..Len(urls) :
          urls[i] = u /\ \A j \in 1..(i - 1) : urls[j] # u) - 1
  ELSE -1

\* every url the player may give to its element
Candidates(version, pr) ==
  IF version = "VideoPlayer"
  THEN {getOptimizedVideoUrl(pr.videoUrl, k) : k \in 0..3}
  ELSE Range(getAllUrls(pr))

\* the src attribute the render of state P gives to the <video>
srcOf(P) ==
  IF playerVersion = "VideoPlayer"
  THEN getOptimizedVideoUrl(props.videoUrl, P.retryCount)
  ELSE P.currentUrl

NoLoadTimer == [left |-> NoTimer, isLoading |-> FALSE, hasError |-> FALSE]

\* the timer the events effect of render P sets on a mobile device, with the
\* isLoading and hasError of that render in its closure
loadTimerOf(P) ==
  IF mobileDevice
  THEN [left |-> mobileLoadTimeoutMs, isLoading |-> P.isLoading,
        hasError |-> P.hasError]
  ELSE NoLoadTimer

handleLoadStart(P) == [P EXCEPT !.isLoading = TRUE, !.hasError = FALSE]

playerCanPlay(P) ==
  IF playerVersion = "VideoPlayer"
  THEN [P EXCEPT !.isLoading = FALSE, !.hasError = FALSE, !.retryCount = 0]
  ELSE [P EXCEPT !.isLoading = FALSE, !.hasError = FALSE]

cloudinaryError_four(P) ==
  IF P.retryCount < 4
  THEN [P EXCEPT !.retryCount = @ + 1]
  ELSE [P EXCEPT !.isLoading = FALSE, !.hasError = TRUE]

\* handleError of VideoPlayer.tsx
cloudinaryError(P) ==
  IF P.retryCount < 3
  THEN [P EXCEPT !.retryCount = @ + 1]
  ELSE [P EXCEPT !.isLoading = FALSE, !.hasError = TRUE]

\* handleError of part_005
multiUrlError(P) ==
  LET allUrls == getAllUrls(props)
      currentIndex == indexOf(allUrls, P.currentUrl)
      following == (currentIndex + 1) % Len(allUrls)
  IN IF P.retryCount < Len(allUrls) * 2
     THEN [P EXCEPT !.currentUrl = allUrls[following + 1], !.retryCount = @ + 1]
     ELSE [P EXCEPT !.isLoading = FALSE, !.hasError = TRUE]

playerError(P) ==
  IF playerVersion = "VideoPlayer" THEN cloudinaryError(P) ELSE multiUrlError(P)

\* the callback of the mobile load timeout: t is the timer with its closure
mobileTimeout(P, t) ==
  IF t.isLoading /\ ~t.hasError
  THEN [P EXCEPT !.hasError = TRUE, !.isLoading = FALSE]
  ELSE P

retryVideo(P) ==
  IF playerVersion = "VideoPlayer"
  THEN [P EXCEPT !.hasError = FALSE, !.isLoading = TRUE, !.retryCount = @ + 1]
  ELSE [P EXCEPT !.currentUrl = props.videoUrl, !.retryCount = 0,
                 !.hasError = FALSE, !.isLoading = TRUE]

\* an element that has just been told to load
Loading(src) == [src |-> src, state |-> "loading", loadstart |-> TRUE]

\* React commits state P: the element loads anew when its src attribute
\* changed, and the events effect of VideoPlayer.tsx runs again, clearing its
\* timer and setting a new one, when currentVideoUrl or retryCount changed.
\* E and T are the element and the timer as the handler left them.
CommitPlayer(P, E, T) ==
  /\ vp' = P
  /\ element' = IF srcOf(P) # E.src THEN Loading(srcOf(P)) ELSE E
  /\ loadTimer' =
       IF playerVersion = "VideoPlayer"
          /\ (srcOf(P) # srcOf(vp) \/ P.retryCount # vp.retryCount)
       THEN loadTimerOf(P)
       ELSE T

InitRetryIn(versions, mobiles) ==
  /\ playerVersion \in versions
  /\ mobileDevice \in mobiles
  /\ props \in PropsOf(playerVersion)
  /\ loads \in SUBSET Candidates(playerVersion, props)
  /\ vp = [currentUrl |-> props.videoUrl, retryCount |-> 0,
           isLoading |-> TRUE, hasError |-> FALSE]
  /\ element = Loading(srcOf(vp))
  /\ loadTimer = IF playerVersion = "VideoPlayer" THEN loadTimerOf(vp)
                 ELSE NoLoadTimer
  /\ pressed = 0

\* ------------------------------------------------------------------ actions
PlayerLoadStart ==
  /\ element.loadstart
  /\ CommitPlayer(handleLoadStart(vp), [element EXCEPT !.loadstart = FALSE], loadTimer)
  /\ UNCHANGED <<besidesRetry, playerVersion, mobileDevice, props, loads, pressed>>

PlayerCanPlay ==
  /\ element.state = "loading" /\ ~element.loadstart
  /\ element.src \in loads
  /\ CommitPlayer(playerCanPlay(vp), [element EXCEPT !.state = "ready"], loadTimer)
  /\ UNCHANGED <<besidesRetry, playerVersion, mobileDevice, props, loads, pressed>>

PlayerError ==
  /\ element.state = "loading" /\ ~element.loadstart
  /\ element.src \notin loads
  /\ CommitPlayer(playerError(vp), [element EXCEPT !.state = "failed"], loadTimer)
  /\ UNCHANGED <<besidesRetry, playerVersion, mobileDevice, props, loads, pressed>>

\* time passes while the mobile load timeout is pending
RetryTick ==
  /\ loadTimer # NoLoadTimer /\ loadTimer.left > 0
  /\ loadTimer' = [loadTimer EXCEPT !.left = @ - RetryTickMs]
  /\ UNCHANGED <<besidesRetry, playerVersion, mobileDevice, props, loads, vp, element, pressed>>

MobileTimeout ==
  /\ loadTimer # NoLoadTimer /\ loadTimer.left <= 0
  /\ CommitPlayer(mobileTimeout(vp, loadTimer), element, NoLoadTimer)
  /\ UNCHANGED <<besidesRetry, playerVersion, mobileDevice, props, loads, pressed>>

\* the 'Try Again' button of the error state; part_005 also calls video.load()
RetryVideo ==
  /\ vp.hasError
  /\ pressed < MaxPresses
  /\ pressed' = pressed + 1
  /\ CommitPlayer(retryVideo(vp),
                  IF playerVersion = "VideoPlayer" THEN element
                  ELSE Loading(element.src),
                  loadTimer)
  /\ UNCHANGED <<besidesRetry, playerVersion, mobileDevice, props, loads>>

NextRetrying ==
  \/ PlayerLoadStart
  \/ PlayerCanPlay
  \/ PlayerError
  \/ RetryTick
  \/ MobileTimeout
  \/ RetryVideo

NextMultiUrl ==
  \/ PlayerLoadStart
  \/ PlayerCanPlay
  \/ PlayerError
  \/ RetryVideo


\* ------------------------------------------------------- the specifications
\* the preloader driven by its callers, below a feed that stays as mounted
\* a retrying player that is not mounted: one state, no step
RetryIdle ==
  /\ playerVersion = "VideoPlayer"
  /\ mobileDevice = FALSE
  /\ props = [videoUrl |-> NoUrl, alternativeUrl |-> NoUrl, directUrl |-> NoUrl]
  /\ loads = {}
  /\ vp = [currentUrl |-> NoUrl, retryCount |-> 0, isLoading |-> TRUE, hasError |-> FALSE]
  /\ element = [src |-> NoUrl, state |-> "idle", loadstart |-> FALSE]
  /\ loadTimer = NoLoadTimer
  /\ pressed = 0

Init ==
  /\ InitPreloader
  /\ InitFeedIn({"DjannyTokFeed"})
  /\ InitGateIn({NoEntry})
  /\ InitPlayersIn({FALSE})
  /\ InitLoader
  /\ MapIdle
  /\ RetryIdle

Spec == Init /\ [][NextPreloader]_vars

\* the feed with its loader, above a preloader that is not called
Unused == [mobile |-> FALSE, urls |-> 0, ticks |-> 0, batches |-> 0]

InitWithFeed ==
  /\ InitPreloaderIn({Unused})
  /\ InitFeed
  /\ InitGateIn({NoEntry})
  /\ InitPlayersIn({FALSE})
  /\ InitLoader
  /\ MapIdle
  /\ RetryIdle

SpecFeed == InitWithFeed /\ [][NextFeed]_vars

\* the password gate, before anything it gates is mounted
InitWithGate ==
  /\ InitPreloaderIn({Unused})
  /\ InitFeedIn({"DjannyTokFeed"})
  /\ InitGate
  /\ InitPlayersIn({FALSE})
  /\ InitLoader
  /\ MapIdle
  /\ RetryIdle

SpecGate == InitWithGate /\ [][NextGate]_vars

\* the players of a loaded feed and the audio provider above them
InitWithPlayers ==
  /\ InitPreloaderIn({Unused})
  /\ InitFeedLoaded
  /\ InitGateIn({NoEntry})
  /\ InitPlayers
  /\ InitLoader
  /\ MapIdle
  /\ RetryIdle

SpecPlayers == InitWithPlayers /\ [][NextPlayers]_vars

\* the loader with its interval, from mount to after its unmount
InitWithLoader ==
  /\ InitPreloaderIn({Unused})
  /\ InitFeedIn({"DjannyTokFeed"})
  /\ InitGateIn({NoEntry})
  /\ InitPlayersIn({FALSE})
  /\ InitLoader
  /\ MapIdle
  /\ RetryIdle

SpecLoader == InitWithLoader /\ [][NextLoader]_vars

\* the loader's map over the entries of a manifest
InitWithMap ==
  /\ InitPreloaderIn({Unused})
  /\ InitFeedIn({"DjannyTokFeed"})
  /\ InitGateIn({NoEntry})
  /\ InitPlayersIn({FALSE})
  /\ InitLoader
  /\ InitMap
  /\ RetryIdle

SpecMap == InitWithMap /\ [][NextMap]_vars

\* one retrying player, mounted with a video whose formats load or fail
InitWithRetrying ==
  /\ InitPreloaderIn({Unused})
  /\ InitFeedIn({"DjannyTokFeed"})
  /\ InitGateIn({NoEntry})
  /\ InitPlayersIn({FALSE})
  /\ InitLoader
  /\ MapIdle
  /\ InitRetryIn({"VideoPlayer"}, BOOLEAN)

SpecRetrying == InitWithRetrying /\ [][NextRetrying]_vars

\* one player with alternative urls, mounted with urls that load or fail
InitWithMultiUrl ==
  /\ InitPreloaderIn({Unused})
  /\ InitFeedIn({"DjannyTokFeed"})
  /\ InitGateIn({NoEntry})
  /\ InitPlayersIn({FALSE})
  /\ InitLoader
  /\ MapIdle
  /\ InitRetryIn({"part_005"}, {FALSE})

SpecMultiUrl == InitWithMultiUrl /\ [][NextMultiUrl]_vars


\* -------------------------------------------------- claims on the preloader
InUseUrls == {u \in URLS : inUse[u] # NoElem}

\* C1: videoPool.available never holds more than MAX_VIDEO_POOL_SIZE
\* elements, and returning an element while the list is full leaves the
\* list as it is (the element is dropped).
C1_AvailableBounded ==
  /\ Len(available) <= MAX_VIDEO_POOL_SIZE
  /\ Len(available) = MAX_VIDEO_POOL_SIZE =>
       \A i \in 1..Len(preloadedVideos) :
          returnVideoToPool(St, preloadedVideos[i].element,
                            preloadedVideos[i].url).av = available

\* an element was returned while the list was full
C1_Dropped ==
  "dropped" \in lastOp /\ Len(available) = MAX_VIDEO_POOL_SIZE

\* C2: the elements the pool holds, available plus in use, never number
\* more than MAX_VIDEO_POOL_SIZE.
C2_PoolTotalBounded ==
  Len(available) + Cardinality(InUseUrls) <= MAX_VIDEO_POOL_SIZE

\* C3: cleanupLRU leaves at most MAX_PRELOADED_VIDEOS entries; every entry
\* it evicts was used no later than every entry it keeps; an evicted url is
\* no longer in inUse, its element is in the available list unless that was
\* full, and its progress entry is gone; the entries kept are untouched; a
\* cache within the limit is left exactly as it is.
C3_CleanupLRU ==
  LET R == cleanupLRU(St)
      kept == PvKeys(R.pv)
      evicted == PvKeys(preloadedVideos) \ kept
  IN /\ Len(R.pv) <= MAX_PRELOADED_VIDEOS
     /\ R.pv = SelectSeq(preloadedVideos, LAMBDA e : e.url \in kept)
     /\ \A i, j \in 1..Len(preloadedVideos) :
          (preloadedVideos[i].url \in evicted /\ preloadedVideos[j].url \in kept)
            => preloadedVideos[i].lastUsed <= preloadedVideos[j].lastUsed
     /\ \A u \in evicted :
          /\ R.iu[u] = NoElem
          /\ R.pp[u] = NoTimer
          /\ \/ PvGet(preloadedVideos, u).element \in Range(R.av)
             \/ Len(R.av) = MAX_VIDEO_POOL_SIZE
     /\ Len(preloadedVideos) > MAX_PRELOADED_VIDEOS
          => Len(R.pv) = MAX_PRELOADED_VIDEOS
     /\ Len(preloadedVideos) <= MAX_PRELOADED_VIDEOS => R = St

\* cleanupLRU has just evicted entries and kept the most recently used
C3_Evicted ==
  /\ "evicted" \in lastOp
  /\ Len(preloadedVideos) = MAX_PRELOADED_VIDEOS
  /\ \E i \in 1..Len(preloadedVideos) : preloadedVideos[i].lastUsed > 0

\* C4: the cache never holds more than MAX_PRELOADED_VIDEOS loaded entries.
C4_CacheBounded ==
  Len(preloadedVideos) <= MAX_PRELOADED_VIDEOS

\* C5: a call never retries more than maxRetries times; the error that
\* comes after the last retry detaches the handlers, returns the element to
\* the pool, removes the url from inFlightPreloads, rejects the promise and
\* leaves no retry or timer behind, while an earlier error schedules a retry.
C5_RetriesBounded ==
  \A u \in URLS :
    /\ calls[u].retryCount <= maxRetries
    /\ (calls[u].phase = "loading" /\ calls[u].retryCount = maxRetries) =>
         LET R == handleError(St, u)
         IN /\ u \notin R.hc
            /\ R.iu[u] = NoElem
            /\ \/ calls[u].video \in Range(R.av)
               \/ Len(R.av) = MAX_VIDEO_POOL_SIZE
            /\ u \notin R.ifp
            /\ <<u, "rejected">> \in R.settled
            /\ ~Live(R.calls[u])
            /\ R.lt[u] = NoTimer
    /\ (calls[u].phase = "loading" /\ calls[u].retryCount < maxRetries) =>
         LET R == handleError(St, u)
         IN /\ R.calls[u].phase = "retryWait"
            /\ R.calls[u].retryCount = calls[u].retryCount + 1
            /\ u \in R.ifp /\ R.settled = {}

\* the error after the last retry has just been handled
C5_Exhausted ==
  /\ "exhausted" \in lastOp
  /\ \E u \in URLS : /\ u <= urlsSeen /\ u \notin inFlightPreloads
                     /\ inUse[u] = NoElem /\ u \notin PvKeys(preloadedVideos)

\* a preload ended in this step: with its url loaded, or without
LoadedStep ==
  \E u \in inFlightPreloads \ inFlightPreloads' : u \in PvKeys(preloadedVideos')

FailedStep ==
  \E u \in inFlightPreloads \ inFlightPreloads' : u \notin PvKeys(preloadedVideos')

\* C6: a final failure counts one more consecutive failure, and the circuit
\* is opened, until the cooldown from now has passed, exactly by the final
\* failures that bring the count to 2 or more; nothing else moves
\* circuitOpenUntil, which never moves back; a successful load resets the
\* count to 0 and nothing else changes the count.
C6_CircuitBreaker ==
  [][/\ FailedStep => consecutiveFailures' = consecutiveFailures + 1
     /\ (FailedStep /\ consecutiveFailures' >= 2)
          => (circuitOpenUntil' = now + cooldown /\ now' < circuitOpenUntil')
     /\ ~(FailedStep /\ consecutiveFailures' >= 2)
          => circuitOpenUntil' = circuitOpenUntil
     /\ circuitOpenUntil' >= circuitOpenUntil
     /\ LoadedStep => consecutiveFailures' = 0
     /\ (~FailedStep /\ ~LoadedStep) => consecutiveFailures' = consecutiveFailures
    ]_vars

\* the circuit has just been opened by a final failure
C6_Opened ==
  /\ "opened" \in lastOp
  /\ consecutiveFailures >= 2
  /\ circuitOpenUntil = now + cooldown

\* C7: while the circuit is open preloadVideo rejects and preloadVideos
\* returns at once, and neither changes anything: no LRU cleanup runs and
\* the preloads in flight keep their elements, timers and handlers.
C7_OpenCircuit ==
  now < circuitOpenUntil =>
    /\ \A u \in URLS :
         preloadVideo(St, u) = [St EXCEPT !.ret = "rejected", !.notes = {"rejected"}]
    /\ \A urls \in UrlLists :
         preloadVideos(St, urls) =
           [st |-> [St EXCEPT !.notes = {"skipped"}], suspended |-> {}]

\* preloadVideos was called with the circuit open and the cache over its limit
C7_Skipped ==
  /\ "skipped" \in lastOp
  /\ now < circuitOpenUntil
  /\ Len(preloadedVideos) > MAX_PRELOADED_VIDEOS

\* ------------------------------------------------------ claims on the feed
\* C8: with videos in the list and the scroll lock free, a next input (a
\* swipe up by more than 50 px, wheel down, ArrowDown) moves the index from
\* i to (i + 1) mod n, a previous input (a swipe down by more than 50 px,
\* wheel up, ArrowUp) moves it to (i - 1 + n) mod n, and a touch that moved
\* 50 px or less leaves the index where it was.
C8_NavigationWraps ==
  [][(~isScrolling /\ Len(videos) > 0) =>
       /\ event'.kind = "next" =>
            currentVideoIndex' = (currentVideoIndex + 1) % Len(videos)
       /\ event'.kind = "previous" =>
            currentVideoIndex' = (currentVideoIndex - 1 + Len(videos)) % Len(videos)
       /\ event'.kind = "short" => currentVideoIndex' = currentVideoIndex
    ]_vars

\* C9: whenever the feed renders a list that is not empty, the current
\* index is an index of the list.
C9_IndexInRange ==
  (~loading /\ Len(videos) > 0) =>
     (0 <= currentVideoIndex /\ currentVideoIndex < Len(videos))

\* the urls of the videos at (i + 1) mod n and (i + 2) mod n, followed by
\* the url at (i - 1) mod n unless it is among them
Neighbours(i, vids) ==
  LET n == Len(vids)
      at(k) == vids[(k % n) + 1]
      two == <<at(i + 1), at(i + 2)>>
  IN IF \E k \in 1..2 : two[k] = at(i - 1 + n) THEN two
     ELSE two \o <<at(i - 1 + n)>>

\* C10: in part_000 a preload of the neighbours is pending from a change of
\* the index or the list (the list being set by a load) until 500 ms after
\* the last such change, for the index and the list as they are; when it
\* fires, preloadVideos gets the neighbours' urls; with an empty list
\* nothing is pending.
C10_PreloadNeighbours ==
  feedVersion = "part_000" =>
    /\ Len(videos) = 0 => preloadTimer = NoPreload
    /\ preloadTimer # NoPreload =>
         /\ preloadTimer.left = preloadDelayMs - sinceChange
         /\ preloadTimer.index = currentVideoIndex
         /\ preloadTimer.videos = videos
    /\ (Len(videos) > 0 /\ sinceChange < preloadDelayMs) =>
         preloadTimer # NoPreload
    /\ event.kind = "preloadNext" =>
         /\ sinceChange = preloadDelayMs
         /\ Len(videos) > 0
         /\ event.urls = Neighbours(currentVideoIndex, videos)

\* preloadNext has just run for a video whose previous neighbour is not
\* among the next two
C10_Preloaded ==
  /\ event.kind = "preloadNext"
  /\ Len(event.urls) = 3
  /\ currentVideoIndex > 0

\* ---------------------------------------------------- claims on the loader
\* C14: a load that completes leaves loading = false and either no error
\* and the manifest's videos, or an error and no videos.
C14_LoadOutcome ==
  [][loadsInFlight' < loadsInFlight =>
       /\ ~loading'
       /\ \/ ~error' /\ videos' \in Manifests
          \/ error' /\ videos' = <<>>
    ]_vars

\* ------------------------------------------------------ claims on the gate
\* the mount effect runs in this step
MountStep == gatePhase = "mounting" /\ gatePhase' = "mounted"

\* the stored entry is a session whose age is a number below 24 hours
Fresh(entry) ==
  /\ entry.kind = "object" /\ entry.hasTimestamp
  /\ wallClock - entry.timestamp < SESSION_DURATION

\* C11: isAuthenticated becomes true only when the mount effect finds a
\* stored session with authenticated = true and an age below 24 hours, or
\* when a submit's callback finds that the password entered is the
\* hardcoded one; so the children are never rendered otherwise.
C11_OnlyTwoWaysIn ==
  [][(~isAuthenticated /\ isAuthenticated') =>
       \/ MountStep /\ Fresh(stored) /\ stored.authenticated = "true"
       \/ /\ submitTimer # NoSubmit /\ submitTimer' = NoSubmit
          /\ submitTimer.password = CORRECT_PASSWORD
    ]_vars

\* C12: while the children are rendered, the session that authorised them,
\* the one in local storage, is less than 24 hours old.
C12_SessionNotExpired ==
  ChildrenRendered => Fresh(stored)

\* C13: the mount effect removes a stored session that is expired or has
\* authenticated = false, and stored text that is not JSON, and stays
\* unauthenticated; it authenticates on a session with authenticated = true
\* and an age below 24 hours and leaves it stored; with no entry it neither
\* writes nor removes.
C13_MountEffect ==
  [][MountStep =>
       /\ ( \/ stored.kind \in {"empty", "garbage"}
            \/ stored.kind = "object" /\ stored.authenticated = "false"
            \/ /\ stored.kind = "object" /\ stored.hasTimestamp
               /\ wallClock - stored.timestamp >= SESSION_DURATION )
            => (stored' = NoEntry /\ ~isAuthenticated')
       /\ (Fresh(stored) /\ stored.authenticated = "true")
            => (isAuthenticated' /\ stored' = stored /\ gateOps' = {})
       /\ stored = NoEntry => (stored' = NoEntry /\ gateOps' = {})
    ]_vars


\* ------------------------------------- claims on the preloader's retries
\* C20: the retries of a url back off with delays of 1 s, 2 s, 4 s: the timer
\* of its first retry is set to 1000 ms, that of its second to 2000 ms, each
\* later one to twice the delay before.
C20_RetryBackoff ==
  \A u \in URLS :
    calls[u].phase = "retryWait" =>
      calls[u].delay = Pow2(calls[u].retryCount - 1) * 1000

\* ---------------------------------------------------- claims on the players
\* C15: the AudioProvider starts with hasUserInteracted, hasEnabledSound and
\* isGloballyMuted all false, and on every render the shouldAutoplayWithSound
\* it hands down is hasUserInteracted and hasEnabledSound and not
\* isGloballyMuted.
C15_AutoplayDerived ==
  /\ ~hasUserInteracted /\ ~hasEnabledSound /\ ~isGloballyMuted
  /\ [](shouldAutoplayWithSound
          = (hasUserInteracted /\ hasEnabledSound /\ ~isGloballyMuted))

\* sound was enabled and then muted again: the flag is down by the mute alone
C15_MutedAgain ==
  /\ hasUserInteracted /\ hasEnabledSound /\ isGloballyMuted
  /\ ~shouldAutoplayWithSound

\* no timer, promise or rejection handler of any player is outstanding
Quiet ==
  /\ Settled
  /\ \A i \in Players : autoTimer[i] = NoAuto /\ pending[i] = {}

\* C16: once a user action is fully processed, the muted property of every
\* player that is not in error equals shouldBeMuted, which is isMobileDevice
\* or not shouldAutoplayWithSound; so on a mobile device no element is unmuted.
C16_MutedFollowsAudio ==
  Quiet => \A i \in Players : ~hasError[i] => muted[i] = shouldBeMuted

\* C17: once the autoplay effects have run, a player that is not the active
\* one (and not in error) is paused with isPlaying false, also after a late
\* play() promise or the mobile fallback; so at most one player plays.
C17_OnlyActivePlays ==
  (Settled /\ \A i \in Players : autoTimer[i] = NoAuto)
    => \A i \in Players :
         (i # currentVideoIndex /\ ~hasError[i]) => paused[i] /\ ~isPlaying[i]

RawVariant(url) ==
  [i \in 1..Len(url) |->
     IF url[i] \in {"dl=1", "dl=10"}
          /\ \A j \in 1..(i - 1) : url[j] \notin {"dl=1", "dl=10"}
     THEN (IF url[i] = "dl=1" THEN "raw=1" ELSE "raw=10")
     ELSE url[i]]

\* C19: a url containing both 'dropbox.com' and 'dl=1' is mapped to its raw=1
\* variant and itself: on mobile the variant is videoUrl and the url is
\* alternativeUrl, on desktop the other way round; any other url is videoUrl
\* unchanged, with alternativeUrl undefined; alternativeUrl is defined
\* exactly when it differs from videoUrl.
C19_DropboxUrls ==
  mapped # NotMapped =>
    LET url == originalUrlOf(manifestEntry)
    IN /\ IF Includes(url, "dropbox.com") /\ Includes(url, "dl=1")
          THEN IF isMobile
               THEN mapped = [videoUrl |-> RawVariant(url), alternativeUrl |-> url]
               ELSE mapped = [videoUrl |-> url, alternativeUrl |-> RawVariant(url)]
          ELSE mapped = [videoUrl |-> url, alternativeUrl |-> Undefined]
       /\ mapped.alternativeUrl # mapped.videoUrl

\* ------------------------------------ claims on the preloader's promises
\* C21: every promise of preloadVideo settles in the end, by canplay, by
\* exhausted retries or, when the load stalls, by the load timeout, also
\* after an error-triggered retry.  A load can stall for good, so the promise
\* of a url that is loading is sure to settle only while its load timeout is
\* pending: every url in flight whose element is loading has one.
C21_StuckLoadTimesOut ==
  \A u \in URLS :
    (u \in inFlightPreloads /\ calls[u].phase = "loading")
      => loadingTimeouts[u] # NoTimer
\* what preloadVideo leaves alone when it acquires no element
NothingAcquired(R) ==
  /\ R.av = St.av /\ R.iu = St.iu /\ R.calls = St.calls
  /\ R.ifp = St.ifp /\ R.lt = St.lt /\ R.hc = St.hc

\* the outcome of preloadVideo(url) for a url that is loaded or in flight
DedupOutcome(url) ==
  LET R == preloadVideo(St, url)
  IN /\ url \in PvKeys(preloadedVideos) =>
          /\ R.ret = "resolved"
          /\ PvGet(R.pv, url).lastUsed = now
          /\ PvGet(R.pv, url).element = PvGet(preloadedVideos, url).element
          /\ NothingAcquired(R)
     /\ (url \in inFlightPreloads /\ url \notin PvKeys(preloadedVideos)) =>
          /\ R.ret = "pending"
          /\ R.pv = St.pv
          /\ NothingAcquired(R)

\* one closure per promise: a url has a load under way exactly when its
\* promise is in inFlightPreloads
OnePreloadPerUrl ==
  \A u \in URLS : Live(calls[u]) <=> u \in inFlightPreloads

\* C22 as stated: a preloadVideo call for a url in flight returns the promise
\* in flight, a call for a loaded url resolves with the cached element and
\* refreshes its lastUsed, and neither acquires an element.
C22_DeduplicatedAlways ==
  \A u \in URLS : DedupOutcome(u)

\* C22: while the circuit is closed, preloads are deduplicated per url: at
\* most one preload of a url is in flight, a preloadVideo call for a url in
\* flight returns the promise in flight and acquires no second element, and
\* a call for a loaded url resolves with the cached element, refreshes its
\* lastUsed and acquires no element.
C22_Deduplicated ==
  /\ OnePreloadPerUrl
  /\ ~isCircuitOpen => \A u \in URLS : DedupOutcome(u)

\* a call was answered with the promise of a load in flight while another
\* url sits in the cache
C22_Shared ==
  /\ "shared" \in lastOp
  /\ ~isCircuitOpen
  /\ inFlightPreloads # {}
  /\ preloadedVideos # <<>>
\* ------------------------------------------ claims on the pool's elements
\* the elements assigned to a url, in inUse or in the cache
Assigned ==
  (Range(inUse) \ {NoElem})
  \cup {preloadedVideos[i].element : i \in 1..Len(preloadedVideos)}

\* C23: pool elements are never aliased: no element is both in available and
\* assigned to a url (in inUse or in the cache), no element is assigned to
\* two urls, no element is twice in available, and every url of the cache
\* maps to the same element in inUse.
C23_NoAliasing ==
  /\ Range(available) \cap Assigned = {}
  /\ \A u, v \in URLS : (u # v /\ inUse[u] # NoElem) => inUse[u] # inUse[v]
  /\ \A i, j \in 1..Len(preloadedVideos) :
       i # j => preloadedVideos[i].element # preloadedVideos[j].element
  /\ \A i, j \in 1..Len(available) : i # j => available[i] # available[j]
  /\ \A i \in 1..Len(preloadedVideos) :
       inUse[preloadedVideos[i].url] = preloadedVideos[i].element

\* an eviction returned an element to the pool while one url is loaded and
\* another is still loading
C23_Recycled ==
  /\ "evicted" \in lastOp
  /\ available # <<>>
  /\ preloadedVideos # <<>>
  /\ \E u \in URLS : inUse[u] # NoElem /\ u \notin PvKeys(preloadedVideos)
\* ------------------------------------------- claims on the player's retries
\* C24: whichever formats load and whichever fail, the retrying player
\* settles for good in the ready state or in the error state.  To settle in
\* the ready state it has to keep the source that loaded: a canplay step
\* leaves the src of the element as it is.
C24_KeepsLoadedSource ==
  [][PlayerCanPlay => element'.src = element.src]_vars

\* C25: 'Try Again' always starts a new load attempt: after retryVideo the
\* element loads a source again, whatever retryCount is.
C25_TryAgainLoads ==
  [][RetryVideo => (element'.state = "loading" /\ element'.loadstart)]_vars

\* C26: the mobile load timeout marks a video as failed only if it is still
\* loading: a video that is ready when the timer fires is not put into the
\* error state by it.
C26_TimeoutSparesReady ==
  [][(MobileTimeout /\ element.state = "ready" /\ ~vp.isLoading /\ ~vp.hasError)
       => ~vp'.hasError]_vars

\* the formats of a video in the order of the retries
FormatOrder(originalUrl) ==
  <<[transformation |-> "f_auto,q_auto:good,fl_progressive", ext |-> ""],
    [transformation |-> "f_auto,q_auto:low,fl_progressive", ext |-> ""],
    [transformation |-> "f_mp4,q_auto:low", ext |-> ".mp4"],
    originalUrl>>

\* what an error event does to the retrying player
ErrorOutcome ==
  IF vp.retryCount < 3
  THEN /\ vp'.retryCount = vp.retryCount + 1
       /\ element.src = FormatOrder(props.videoUrl)[vp.retryCount + 1]
       /\ element' = Loading(FormatOrder(props.videoUrl)[vp.retryCount + 2])
       /\ vp'.hasError = vp.hasError
       /\ (vp.isLoading /\ ~vp.hasError) => (vp'.isLoading /\ ~vp'.hasError)
  ELSE /\ vp'.retryCount = vp.retryCount
       /\ element.src = props.videoUrl
       /\ vp'.hasError /\ ~vp'.isLoading

\* C27: on consecutive load errors the player tries the formats in the
\* order q_auto:good, q_auto:low, forced MP4, original url (retryCount 0, 1,
\* 2, 3), shows the error state only after the failure of the fourth, and
\* an automatic retry never raises retryCount above 3; while retries remain
\* a player that is loading stays in the loading state.
C27_FormatOrder ==
  [][PlayerError => (ErrorOutcome /\ vp'.retryCount <= 3 + pressed)]_vars

\* all four formats have failed one after the other and the error state shows
C27_FourthFailure ==
  /\ playerVersion = "VideoPlayer" /\ element.state = "failed"
  /\ ~mobileDevice /\ pressed = 0
  /\ vp.retryCount = 3 /\ vp.hasError /\ ~vp.isLoading
  /\ element.src = props.videoUrl
\* ------------------------------------- claims on the player's fallback urls
\* C28: when every candidate url fails, the player goes round the candidates
\* and shows the error state after at most 2 x N automatic retries, for
\* every number N >= 1 of candidates: retryCount stays within 2 x N, and a
\* failed load is followed by the load of the next candidate or, in the end,
\* by the error state.
C28_AllFailEndsInError ==
  (playerVersion = "part_005" /\ loads = {}) =>
     /\ vp.retryCount <= 2 * Len(getAllUrls(props))
     /\ element.state = "failed" => vp.hasError
\* ------------------------------------------------ claims on the scroll lock
\* the lock is set exactly while its timer is pending, and the timer has at
\* most its delay left
LockPending ==
  /\ isScrolling <=> lockTimer # NoTimer
  /\ lockTimer <= Max(touchLockMs, keyLockMs)

\* a step of the feed under the lock, and a step that takes the lock
LockStep ==
  /\ isScrolling =>
       /\ currentVideoIndex' = currentVideoIndex
       /\ isScrolling' => (lockTimer' # NoTimer /\ lockTimer' <= lockTimer)
  /\ currentVideoIndex' # currentVideoIndex => (~isScrolling /\ isScrolling')
  /\ (~isScrolling /\ isScrolling') =>
       /\ Len(videos) > 0
       /\ currentVideoIndex' \in {nextIndex(currentVideoIndex, Len(videos)),
                                  prevIndex(currentVideoIndex, Len(videos))}
       /\ lockTimer' \in {touchLockMs, keyLockMs}

\* C29: the scroll lock serialises navigation: while isScrolling is true
\* every touch, wheel or key input is ignored and currentVideoIndex does not
\* change; an accepted input moves the index by exactly one step and sets
\* the lock; the lock's timer (300 or 500 ms) is pending as long as the lock
\* is set, is not set anew under the lock, and releases it.
C29_ScrollLock ==
  /\ LockPending
  /\ [](LockPending)
  /\ [][LockStep]_vars

\* an input to go on arrived while the lock of an earlier one was running
C29_IgnoredUnderLock ==
  /\ isScrolling
  /\ event.kind = "next"
  /\ lockTimer < Min(touchLockMs, keyLockMs)
\* ----------------------------------------------- claims on the loading flag
\* C30: the loading flag is true whenever a load of the manifest is in
\* flight, whether started by the mount, by refreshVideos or by the
\* 5-minute timer: it is false only when no load is outstanding.
C30_LoadingWhileInFlight ==
  loadsInFlight > 0 => loading
====
